---- MODULE Spec2Model ----
(***************************************************************************)
(* A model of the quote service: the Snowflake quote-identifier generator  *)
(* (src/src/utils/snowflake.ts), the token resolver with its process-wide  *)
(* cache (src/src/services/routerService.ts, TokenUtils) and the request   *)
(* flow of the quote controller (src/src/controllers/quoteController.ts).  *)
(*                                                                         *)
(* Strings of the program are sequences of one-character strings, so that  *)
(* toLowerCase, substring, includes and toString are computed, not assumed.*)
(***************************************************************************)
EXTENDS Integers, Sequences, FiniteSets, TLC

(***************************************************************************)
(* Bounds of the model.                                                    *)
(***************************************************************************)
\* The clock (Date.now()) reads a value in twepoch..MaxClock.
MaxClock == 3
\* Number of service instances (processes), each with its own controller.
NumInstances == 2
\* Identifiers one instance issues in the multi-instance specification.
MaxCalls == 2
\* Quote requests one process serves, in flight at the same time or in turn.
MaxRequests == 3
\* getTokenInfo calls that may be in flight at the same time.
MaxResolutions == 2

Instances == 1..NumInstances

(***************************************************************************)
(* String helpers.                                                         *)
(***************************************************************************)
DigitChars == <<"0", "1", "2", "3", "4", "5", "6", "7", "8", "9">>

RECURSIVE NatToString(_)
NatToString(n) ==
  IF n < 10 THEN <<DigitChars[n + 1]>>
  ELSE NatToString(n \div 10) \o <<DigitChars[(n % 10) + 1]>>

\* BigInt.prototype.toString(): decimal digits, a leading "-" when negative.
toString(n) == IF n < 0 THEN <<"-">> \o NatToString(-n) ELSE NatToString(n)

DigitValue(c) == CHOOSE d \in 0..9 : DigitChars[d + 1] = c

RECURSIVE DigitsValue(_)
DigitsValue(s) ==
  IF s = <<>> THEN 0
  ELSE 10 * DigitsValue(SubSeq(s, 1, Len(s) - 1)) + DigitValue(s[Len(s)])

\* The number a decimal string denotes (the numeric comparison of identifiers).
NumericValue(s) ==
  IF s # <<>> /\ s[1] = "-" THEN 0 - DigitsValue(Tail(s)) ELSE DigitsValue(s)

UpperChars == <<"A", "B", "C", "D", "E", "F", "G", "H", "I", "J", "K", "L", "M",
                "N", "O", "P", "Q", "R", "S", "T", "U", "V", "W", "X", "Y", "Z">>
LowerChars == <<"a", "b", "c", "d", "e", "f", "g", "h", "i", "j", "k", "l", "m",
                "n", "o", "p", "q", "r", "s", "t", "u", "v", "w", "x", "y", "z">>

\* The lower-case letter of each upper-case letter.
LowerOf ==
  [c \in {UpperChars[u] : u \in 1..Len(UpperChars)} |->
     LowerChars[CHOOSE u \in 1..Len(UpperChars) : UpperChars[u] = c]]

\* String.prototype.toLowerCase, character by character.
toLowerCase(s) ==
  [k \in 1..Len(s) |-> IF s[k] \in DOMAIN LowerOf THEN LowerOf[s[k]] ELSE s[k]]

\* String.prototype.includes
includes(s, sub) ==
  \E k \in 1..(Len(s) - Len(sub) + 1) : SubSeq(s, k, k + Len(sub) - 1) = sub

Clamp(k, len) == IF k < 0 THEN 0 ELSE IF k > len THEN len ELSE k

\* String.prototype.substring(start, end): indices from zero, end excluded,
\* both clamped to the length and swapped when out of order.
substring(s, start, end) ==
  LET a == Clamp(start, Len(s))
      b == Clamp(end, Len(s))
  IN IF a <= b THEN SubSeq(s, a + 1, b) ELSE SubSeq(s, b + 1, a)

\* String.prototype.substring(start)
substringFrom(s, start) == substring(s, start, Len(s))

(***************************************************************************)
(* Bit operations on non-negative integers.                                *)
(***************************************************************************)
RECURSIVE Pow2(_)
Pow2(n) == IF n = 0 THEN 1 ELSE 2 * Pow2(n - 1)

ShiftLeft(x, n) == x * Pow2(n)

RECURSIVE BitOr(_, _)
BitOr(a, b) ==
  IF a = 0 THEN b
  ELSE IF b = 0 THEN a
  ELSE (IF a % 2 = 1 \/ b % 2 = 1 THEN 1 ELSE 0) + 2 * BitOr(a \div 2, b \div 2)

RECURSIVE BitAnd(_, _)
BitAnd(a, b) ==
  IF a = 0 \/ b = 0 THEN 0
  ELSE (IF a % 2 = 1 /\ b % 2 = 1 THEN 1 ELSE 0) + 2 * BitAnd(a \div 2, b \div 2)

(***************************************************************************)
(* SnowflakeIdGenerator: constants.                                        *)
(***************************************************************************)
\* The epoch, in the model's clock unit.  The program's value 1420041600000
\* (2015-01-01 in ms) exceeds the integers of the model checker; the clock of
\* the model starts at the epoch, so only timestamp - twepoch >= 0 occurs.
twepoch == 1
workerIdBits == 5
dataCenterIdBits == 5
sequenceBits == 12

\* -1n ^ (-1n << bits): the low `bits` bits set.
maxWorkerId == Pow2(workerIdBits) - 1
maxDataCenterId == Pow2(dataCenterIdBits) - 1
sequenceMask == Pow2(sequenceBits) - 1

workerIdShift == sequenceBits
dataCenterIdShift == sequenceBits + workerIdBits
timestampLeftShift == sequenceBits + workerIdBits + dataCenterIdBits

ClockValues == twepoch..MaxClock

\* new SnowflakeIdGenerator(1, 1) in the constructor of QuoteController: the
\* same pair in every instance of the service.
ControllerWorkerId == 1
ControllerDataCenterId == 1

VARIABLES
  now,            \* the value Date.now() returns
  workerId,       \* per instance: SnowflakeIdGenerator.workerId
  dataCenterId,   \* per instance: SnowflakeIdGenerator.dataCenterId
  sequence,       \* per instance: SnowflakeIdGenerator.sequence
  lastTimestamp,  \* per instance: SnowflakeIdGenerator.lastTimestamp
  lastCall,       \* per instance: outcome of the latest nextId call
  hasIssued,      \* per instance: some call has returned an identifier
  maxIssued,      \* per instance: the greatest identifier returned so far
  rejected,       \* per instance: some call has failed (clock moved backwards)
  issuedIds,      \* per instance: quote identifiers issued (multi-instance runs)
  req,            \* per request of instance 1: position, response, quote id
  tokensCache,    \* TokenUtils.tokensCache: chain id -> lower-cased address -> info
  res,            \* per getTokenInfo call in flight: position, arguments, locals
  quote,          \* one quote request followed through getQuote in detail
  norm,           \* one application of the route normalizer to a raw result
  lastReturn      \* the getTokenInfo call that completed in the latest step, if any

genVars == <<workerId, dataCenterId, sequence, lastTimestamp, lastCall,
             hasIssued, maxIssued, rejected>>
svcVars == <<req, quote, norm>>
tokVars == <<tokensCache, res, lastReturn>>
vars == <<now, genVars, issuedIds, svcVars, tokVars>>

\* The constructor's range checks.
ValidShardIds(w, d) ==
  /\ ~(w > maxWorkerId \/ w < 0)
  /\ ~(d > maxDataCenterId \/ d < 0)

InitGenerator ==
  /\ ValidShardIds(ControllerWorkerId, ControllerDataCenterId)
  /\ workerId = [i \in Instances |-> ControllerWorkerId]
  /\ dataCenterId = [i \in Instances |-> ControllerDataCenterId]
  /\ sequence = [i \in Instances |-> 0]
  /\ lastTimestamp = [i \in Instances |-> -1]
  /\ lastCall = [i \in Instances |-> [flip |-> FALSE, ok |-> FALSE, id |-> <<>>]]
  /\ hasIssued = [i \in Instances |-> FALSE]
  /\ maxIssued = [i \in Instances |-> <<>>]
  /\ rejected = [i \in Instances |-> FALSE]

(***************************************************************************)
(* SnowflakeIdGenerator.nextId                                             *)
(***************************************************************************)
\* if (timestamp < this.lastTimestamp) throw
ClockMovedBackwardsNever(timestamp, last) == FALSE
ClockMovedBackwards(timestamp, last) == timestamp < last

\* The sequence after the call: incremented under the mask within the same
\* millisecond, reset to zero when the timestamp has changed.
NextSequenceNoMask(timestamp, last, seq) ==
  IF timestamp = last THEN seq + 1 ELSE 0
NextSequence(timestamp, last, seq) ==
  IF timestamp = last THEN BitAnd(seq + 1, sequenceMask) ELSE 0

\* The identifier composed of timestamp, data-center id, worker id, sequence.
ComposeIdNoSequence(timestamp, dc, w, seq) ==
  BitOr(BitOr(ShiftLeft(timestamp - twepoch, timestampLeftShift),
              ShiftLeft(dc, dataCenterIdShift)),
        ShiftLeft(w, workerIdShift))
ComposeId(timestamp, dc, w, seq) ==
  BitOr(BitOr(BitOr(ShiftLeft(timestamp - twepoch, timestampLeftShift),
                    ShiftLeft(dc, dataCenterIdShift)),
              ShiftLeft(w, workerIdShift)),
        seq)

\* The readings at which tilNextMillis(last) stops spinning.
tilNextMillis(last) == {t \in ClockValues : ~(t <= last)}

\* A successful return of nextId by instance i with final timestamp ts.
ReturnsLostUpdate(i, ts, seq) ==
  LET id == toString(ComposeId(ts, dataCenterId[i], workerId[i], seq)) IN
  /\ lastTimestamp' = [lastTimestamp EXCEPT ![i] = ts]
  /\ lastCall' = [lastCall EXCEPT ![i] =
                    [flip |-> ~lastCall[i].flip, ok |-> TRUE, id |-> id]]
  /\ hasIssued' = [hasIssued EXCEPT ![i] = TRUE]
  /\ maxIssued' = [maxIssued EXCEPT ![i] =
                     IF hasIssued[i] /\ NumericValue(maxIssued[i]) > NumericValue(id)
                     THEN maxIssued[i] ELSE id]
  /\ UNCHANGED <<workerId, dataCenterId, rejected, sequence>>
Returns(i, ts, seq) ==
  LET id == toString(ComposeId(ts, dataCenterId[i], workerId[i], seq)) IN
  /\ sequence' = [sequence EXCEPT ![i] = seq]
  /\ lastTimestamp' = [lastTimestamp EXCEPT ![i] = ts]
  /\ lastCall' = [lastCall EXCEPT ![i] =
                    [flip |-> ~lastCall[i].flip, ok |-> TRUE, id |-> id]]
  /\ hasIssued' = [hasIssued EXCEPT ![i] = TRUE]
  /\ maxIssued' = [maxIssued EXCEPT ![i] =
                     IF hasIssued[i] /\ NumericValue(maxIssued[i]) > NumericValue(id)
                     THEN maxIssued[i] ELSE id]
  /\ UNCHANGED <<workerId, dataCenterId, rejected>>

\* The call throws "Clock moved backwards" before it has written anything.
Throws(i) ==
  /\ lastCall' = [lastCall EXCEPT ![i] =
                    [flip |-> ~lastCall[i].flip, ok |-> FALSE, id |-> <<>>]]
  /\ rejected' = [rejected EXCEPT ![i] = TRUE]
  /\ UNCHANGED <<workerId, dataCenterId, sequence, lastTimestamp, hasIssued,
                 maxIssued, now>>

nextId(i) ==
  LET timestamp == now
      seq == NextSequence(timestamp, lastTimestamp[i], sequence[i])
  IN
  IF ClockMovedBackwards(timestamp, lastTimestamp[i]) THEN Throws(i)
  ELSE IF timestamp = lastTimestamp[i] /\ seq = 0
       THEN \* the sequence is used up: spin until the clock has passed
            \E t \in tilNextMillis(lastTimestamp[i]) :
              /\ now' = t
              /\ Returns(i, t, seq)
       ELSE /\ now' = now
            /\ Returns(i, timestamp, seq)

(***************************************************************************)
(* Token resolver: RouterService.getTokenInfo and TokenUtils.              *)
(***************************************************************************)
EeAddress ==
  <<"0", "x", "e", "e", "e", "e", "e", "e", "e", "e", "e", "e", "e", "e",
    "e", "e", "e", "e", "e", "e", "e", "e", "e", "e", "e", "e", "e", "e",
    "e", "e", "e", "e", "e", "e", "e", "e", "e", "e", "e", "e", "e", "e">>
EeAddressMixed ==
  <<"0", "x", "E", "e", "e", "e", "e", "E", "e", "e", "e", "E", "e", "E",
    "e", "e", "E", "e", "E", "e", "E", "e", "e", "E", "E", "E", "e", "e",
    "e", "e", "E", "e", "e", "e", "e", "e", "e", "e", "E", "E", "e", "E">>
ZeroAddress ==
  <<"0", "x", "0", "0", "0", "0", "0", "0", "0", "0", "0", "0", "0", "0",
    "0", "0", "0", "0", "0", "0", "0", "0", "0", "0", "0", "0", "0", "0",
    "0", "0", "0", "0", "0", "0", "0", "0", "0", "0", "0", "0", "0", "0">>
\* Tether USD on Arbitrum, the hardcoded override of the fallback.
ArbUsdtAddress ==
  <<"0", "x", "f", "d", "0", "8", "6", "b", "c", "7", "c", "d", "5", "c",
    "4", "8", "1", "d", "c", "c", "9", "c", "8", "5", "e", "b", "e", "4",
    "7", "8", "a", "1", "c", "0", "b", "6", "9", "f", "c", "b", "b", "9">>
ArbUsdtAddressMixed ==
  <<"0", "x", "F", "d", "0", "8", "6", "b", "C", "7", "C", "D", "5", "C",
    "4", "8", "1", "D", "C", "C", "9", "C", "8", "5", "e", "b", "E", "4",
    "7", "8", "A", "1", "C", "0", "b", "6", "9", "F", "C", "b", "b", "9">>
\* USD Coin on Ethereum mainnet (the token of test-api.sh).
UsdcAddress ==
  <<"0", "x", "a", "0", "b", "8", "6", "9", "9", "1", "c", "6", "2", "1",
    "8", "b", "3", "6", "c", "1", "d", "1", "9", "d", "4", "a", "2", "e",
    "9", "e", "b", "0", "c", "e", "3", "6", "0", "6", "e", "b", "4", "8">>
UsdcAddressMixed ==
  <<"0", "x", "A", "0", "b", "8", "6", "9", "9", "1", "c", "6", "2", "1",
    "8", "b", "3", "6", "c", "1", "d", "1", "9", "D", "4", "a", "2", "e",
    "9", "E", "b", "0", "c", "E", "3", "6", "0", "6", "e", "B", "4", "8">>

\* const nativeTokenSymbols = ['eth', 'bnb', 'matic', 'avax', 'celo', 'native']
nativeTokenSymbols ==
  {<<"e", "t", "h">>, <<"b", "n", "b">>, <<"m", "a", "t", "i", "c">>,
   <<"a", "v", "a", "x">>, <<"c", "e", "l", "o">>,
   <<"n", "a", "t", "i", "v", "e">>}

\* Inputs that are no address: too short, or no hexadecimal digits.
MalformedInputs ==
  {<<"0", "x", "1", "2">>, <<"m", "y", "-", "U", "S", "D", "C">>}

\* Native references in other letter cases than the program's constants.
NativeInputs ==
  nativeTokenSymbols
    \cup {<<"E", "T", "H">>, <<"B", "n", "b">>, <<"M", "a", "t", "i", "c">>,
          <<"a", "v", "a", "X">>, <<"C", "E", "L", "O">>,
          <<"N", "a", "t", "i", "v", "e">>}
    \cup {EeAddress, EeAddressMixed, ZeroAddress}

\* The token references a caller passes to getTokenInfo.
TokenInputs ==
  {<<"E", "T", "H">>, EeAddressMixed, ZeroAddress}
    \cup {ArbUsdtAddress, ArbUsdtAddressMixed, UsdcAddressMixed}
    \cup MalformedInputs

\* The chains getTokenInfo is called for (RouterService.getQuote has checked
\* that the chain has a router).
ResolverChains == {1, 42161}

HexDigits == {"0", "1", "2", "3", "4", "5", "6", "7", "8", "9",
              "a", "b", "c", "d", "e", "f", "A", "B", "C", "D", "E", "F"}

\* The format check of an address: 0x and forty hexadecimal digits.  (The
\* check sum that the library also verifies for mixed-case input is not
\* modelled.)
IsAddress(s) ==
  /\ Len(s) = 42
  /\ s[1] = "0" /\ s[2] = "x"
  /\ \A k \in 3..42 : s[k] \in HexDigits

Str_USDT == <<"U", "S", "D", "T">>
Str_TetherUSD == <<"T", "e", "t", "h", "e", "r", " ", "U", "S", "D">>
Str_USDC == <<"U", "S", "D", "C">>
Str_USDCoin == <<"U", "S", "D", " ", "C", "o", "i", "n">>
Str_DAI == <<"D", "A", "I">>
Str_DaiStablecoin ==
  <<"D", "a", "i", " ", "S", "t", "a", "b", "l", "e", "c", "o", "i", "n">>

TokenInfo(name, symbol, decimals) ==
  [name |-> name, symbol |-> symbol, decimals |-> decimals]

\* What the token contract answers when a call to it succeeds.
OnChainInfo(chainId, address) ==
  IF toLowerCase(address) = UsdcAddress
  THEN TokenInfo(Str_USDCoin, Str_USDC, 6)
  ELSE TokenInfo(Str_TetherUSD, Str_USDT, 6)

\* The token lists TokenUtils.init loads, keys lower-cased: here USD Coin on
\* both chains.
PreloadedTokens ==
  [c \in ResolverChains |->
     (toLowerCase(UsdcAddressMixed) :> TokenInfo(Str_USDCoin, Str_USDC, 6))]

\* TokenUtils.getToken: the entry of the lower-cased address, if any.
getToken(cache, chainId, address) ==
  LET normalizedAddress == toLowerCase(address) IN
  IF chainId \in DOMAIN cache /\ normalizedAddress \in DOMAIN cache[chainId]
  THEN [found |-> TRUE, info |-> cache[chainId][normalizedAddress]]
  ELSE [found |-> FALSE, info |-> TokenInfo(<<>>, <<>>, 0)]

\* TokenUtils.addToken: the cache after the write.
addToken(cache, chainId, address, info) ==
  LET normalizedAddress == toLowerCase(address)
      chainTokens == IF chainId \in DOMAIN cache THEN cache[chainId] ELSE <<>>
  IN [c \in DOMAIN cache \cup {chainId} |->
        IF c = chainId
        THEN [a \in DOMAIN chainTokens \cup {normalizedAddress} |->
                IF a = normalizedAddress THEN info ELSE chainTokens[a]]
        ELSE cache[c]]

Resolutions == 1..MaxResolutions

Idle ==
  [pc |-> "idle", chainId |-> 0, tokenAddress |-> <<>>, rpc |-> 0,
   primary |-> "none", fallbackProvider |-> FALSE]

NoReturn ==
  [kind |-> "none", stage |-> "none", chainId |-> 0, tokenAddress |-> <<>>,
   decimals |-> 0, symbol |-> <<>>, name |-> <<>>, rpc |-> 0,
   cacheRead |-> FALSE, primary |-> "none"]

InitTok ==
  /\ tokensCache = PreloadedTokens
  /\ res = [s \in Resolutions |-> Idle]
  /\ lastReturn = NoReturn

\* The native-currency test of getTokenInfo: an alias or a sentinel address,
\* compared in lower case.
isNativeCaseSensitive(tokenAddress) ==
  \/ tokenAddress \in nativeTokenSymbols
  \/ tokenAddress = EeAddress
  \/ tokenAddress = ZeroAddress
isNative(tokenAddress) ==
  LET normalizedTokenAddress == toLowerCase(tokenAddress) IN
  \/ normalizedTokenAddress \in nativeTokenSymbols
  \/ normalizedTokenAddress = EeAddress
  \/ normalizedTokenAddress = ZeroAddress

\* nativeOnChain(chainId): the native currency of the chain (18 decimals on
\* every configured chain).
nativeOnChain(chainId) == TokenInfo(<<>>, <<>>, 18)

\* The step of getTokenInfo that decides before any suspension: native
\* detection, then the cache, else the on-chain lookup.
FirstStepSkipCache(cache, chainId, tokenAddress) ==
  IF isNative(tokenAddress) THEN "native" ELSE "onchain"
FirstStepCoalesced(cache, chainId, tokenAddress) ==
  IF isNative(tokenAddress) THEN "native"
  ELSE IF \/ getToken(cache, chainId, toLowerCase(tokenAddress)).found
          \/ \E q \in Resolutions :
               /\ res[q].pc # "idle"
               /\ res[q].chainId = chainId
               /\ toLowerCase(res[q].tokenAddress) = toLowerCase(tokenAddress)
       THEN "cache"
  ELSE "onchain"
FirstStep(cache, chainId, tokenAddress) ==
  IF isNative(tokenAddress) THEN "native"
  ELSE IF getToken(cache, chainId, toLowerCase(tokenAddress)).found THEN "cache"
  ELSE "onchain"

\* The branch of the fallback taken after the on-chain lookup has failed.
FallbackStep(chainId, tokenAddress) ==
  LET normalizedTokenAddress == toLowerCase(tokenAddress) IN
  IF normalizedTokenAddress = ArbUsdtAddress /\ chainId = 42161 THEN "override"
  ELSE IF \/ includes(normalizedTokenAddress, <<"u", "s", "d", "t">>)
          \/ includes(normalizedTokenAddress, <<"t", "e", "t", "h", "e", "r">>)
       THEN "usdt"
  ELSE IF \/ includes(normalizedTokenAddress, <<"u", "s", "d", "c">>)
          \/ includes(normalizedTokenAddress,
                      <<"u", "s", "d", "-", "c", "o", "i", "n">>)
       THEN "usdc"
  ELSE IF includes(normalizedTokenAddress, <<"d", "a", "i">>) THEN "dai"
  ELSE "retry"

\* The descriptor of a heuristic branch that does not go back to the chain.
HeuristicInfo(step) ==
  IF step = "usdc" THEN TokenInfo(Str_USDCoin, Str_USDC, 6)
  ELSE IF step = "dai" THEN TokenInfo(Str_DaiStablecoin, Str_DAI, 18)
  ELSE TokenInfo(Str_TetherUSD, Str_USDT, 6)

\* The info cached after a successful name/symbol/decimals lookup.
OnChainTokenInfoDefaultDecimals(name, symbol, decimals) ==
  TokenInfo(name, symbol, 18)
OnChainTokenInfo(name, symbol, decimals) == TokenInfo(name, symbol, decimals)

\* The placeholder built after the decimals-only retry has succeeded.
RetryTokenInfoEighteen(tokenAddress, tokenDecimals) ==
  TokenInfo(<<"T", "o", "k", "e", "n">>, <<"T", "K", "N">>, 18)
RetryTokenInfo(tokenAddress, tokenDecimals) ==
  LET shortAddr == substringFrom(tokenAddress, Len(tokenAddress) - 4) IN
  TokenInfo(<<"T", "o", "k", "e", "n", " ">> \o shortAddr,
            <<"T", "K", "N", "-">> \o shortAddr,
            tokenDecimals)

\* The placeholder built after the retry has failed as well.
DefaultTokenInfo(tokenAddress) ==
  TokenInfo(<<"U", "n", "k", "n", "o", "w", "n", " ", "T", "o", "k", "e", "n", " ">>
              \o substring(tokenAddress, 2, 10),
            <<"T", "K", "N", "-">> \o substring(tokenAddress, 2, 6),
            18)

\* getTokenInfo of slot s completes.  new Token(...) rejects an input that
\* is no address; outside the inner try blocks that exception reaches the
\* outer catch and getTokenInfo throws "Failed to fetch token info".
Return(s, stage, chainId, tokenAddress, info, rpc, cacheRead, primary) ==
  /\ lastReturn' =
       [kind |-> IF stage = "native" THEN "native"
                 ELSE IF IsAddress(tokenAddress) THEN "token" ELSE "error",
        stage |-> stage, chainId |-> chainId, tokenAddress |-> tokenAddress,
        decimals |-> info.decimals, symbol |-> info.symbol, name |-> info.name,
        rpc |-> rpc, cacheRead |-> cacheRead, primary |-> primary]
  /\ res' = [res EXCEPT ![s] = Idle]

\* getTokenInfo up to its first suspension (a new call takes the lowest
\* free slot).
getTokenInfoStart(s) ==
  /\ res[s].pc = "idle"
  /\ \A q \in Resolutions : q < s => res[q].pc # "idle"
  /\ \E chainId \in ResolverChains, tokenAddress \in TokenInputs :
       LET step == FirstStep(tokensCache, chainId, tokenAddress) IN
       IF step = "native"
       THEN /\ Return(s, "native", chainId, tokenAddress, nativeOnChain(chainId),
                      0, FALSE, "none")
            /\ UNCHANGED tokensCache
       ELSE IF step = "cache"
       THEN /\ Return(s, "cache", chainId, tokenAddress,
                      getToken(tokensCache, chainId, toLowerCase(tokenAddress)).info,
                      0, TRUE, "none")
            /\ UNCHANGED tokensCache
       ELSE \* name(), symbol() and decimals() are called, the call suspends
            /\ res' = [res EXCEPT ![s] =
                         [pc |-> "awaitPrimary", chainId |-> chainId,
                          tokenAddress |-> tokenAddress, rpc |-> 3,
                          primary |-> "none", fallbackProvider |-> FALSE]]
            /\ lastReturn' = NoReturn
            /\ UNCHANGED tokensCache
  /\ UNCHANGED <<now, genVars, issuedIds, svcVars>>

\* The three calls have succeeded: the info is cached and the token returned.
PrimarySucceeded(s) ==
  LET chainId == res[s].chainId
      tokenAddress == res[s].tokenAddress
      onChain == OnChainInfo(chainId, tokenAddress)
  IN /\ tokensCache' =
          addToken(tokensCache, chainId, toLowerCase(tokenAddress),
                   OnChainTokenInfo(onChain.name, onChain.symbol, onChain.decimals))
     /\ Return(s, "onchain", chainId, tokenAddress, onChain, res[s].rpc, TRUE, "ok")

\* A call has failed (catch contractError): the heuristic fallback.
PrimaryFailedRethrow(s) ==
  /\ lastReturn' =
       [NoReturn EXCEPT !.kind = "error", !.stage = "onchain",
                        !.chainId = res[s].chainId,
                        !.tokenAddress = res[s].tokenAddress,
                        !.rpc = res[s].rpc, !.cacheRead = TRUE,
                        !.primary = "failed"]
  /\ res' = [res EXCEPT ![s] = Idle]
  /\ UNCHANGED tokensCache
PrimaryFailed(s) ==
  LET chainId == res[s].chainId
      tokenAddress == res[s].tokenAddress
      step == FallbackStep(chainId, tokenAddress)
  IN IF step = "retry"
     THEN \* a new provider is made and decimals() is called on it
          /\ res' = [res EXCEPT ![s] = [@ EXCEPT !.pc = "awaitRetry",
                                                 !.rpc = @ + 1,
                                                 !.primary = "failed",
                                                 !.fallbackProvider = TRUE]]
          /\ lastReturn' = NoReturn
          /\ UNCHANGED tokensCache
     ELSE /\ Return(s, step, chainId, tokenAddress, HeuristicInfo(step),
                    res[s].rpc, TRUE, "failed")
          /\ UNCHANGED tokensCache

\* Promise.all of name(), symbol() and decimals() settles.  A call on a
\* reference that is no address cannot succeed.
PrimarySettled(s) ==
  /\ res[s].pc = "awaitPrimary"
  /\ \E nameOk \in BOOLEAN, symbolOk \in BOOLEAN, decimalsOk \in BOOLEAN :
       IF nameOk /\ symbolOk /\ decimalsOk /\ IsAddress(res[s].tokenAddress)
       THEN PrimarySucceeded(s)
       ELSE PrimaryFailed(s)
  /\ UNCHANGED <<now, genVars, issuedIds, svcVars>>

\* fallbackContract.decimals() settles.
RetrySettled(s) ==
  /\ res[s].pc = "awaitRetry"
  /\ LET chainId == res[s].chainId
         tokenAddress == res[s].tokenAddress
     IN \E ok \in BOOLEAN :
          LET tokenInfo ==
                IF ok /\ IsAddress(tokenAddress)
                THEN RetryTokenInfo(tokenAddress,
                                    OnChainInfo(chainId, tokenAddress).decimals)
                ELSE DefaultTokenInfo(tokenAddress)
          IN /\ tokensCache' =
                  addToken(tokensCache, chainId, toLowerCase(tokenAddress), tokenInfo)
             /\ Return(s, IF ok /\ IsAddress(tokenAddress) THEN "retry" ELSE "default",
                       chainId, tokenAddress, tokenInfo, res[s].rpc, TRUE,
                       res[s].primary)
  /\ UNCHANGED <<now, genVars, issuedIds, svcVars>>

NextTok ==
  \/ \E s \in Resolutions : getTokenInfoStart(s)
  \/ \E s \in Resolutions : PrimarySettled(s)
  \/ \E s \in Resolutions : RetrySettled(s)

(***************************************************************************)
(* The clock: it may advance or be set back between any two steps.         *)
(***************************************************************************)
Tick ==
  /\ now' \in ClockValues \ {now}
  /\ UNCHANGED <<genVars, issuedIds, svcVars, tokVars>>

(***************************************************************************)
(* QuoteController: the request flow of getQuote in one process.           *)
(***************************************************************************)
Requests == 1..MaxRequests

\* config.chains: the configured chain ids.
ConfiguredChains == {1, 10, 42161, 137, 56, 43114, 42220, 8453,
                     7777777, 81457, 324, 480}

\* Chain ids a request may carry; 999 is not configured.
RequestChainIds == {1, 56, 999}

\* isChainSupported: chainId in config.chains
isChainSupportedAlways(chainId) == TRUE
isChainSupported(chainId) == chainId \in ConfiguredChains

\* generateQuoteId: `q-${this.idGenerator.nextId()}`
generateQuoteId(id) == <<"q", "-">> \o id

\* Values of the program as the normalizer sees them: undefined, numbers,
\* strings (tuples of characters) and references to the objects of the raw
\* routing result; Thrown is the outcome of an expression that raised.
Undef == [t |-> "undef", s |-> <<>>, n |-> 0]
Num(n) == [t |-> "num", s |-> <<>>, n |-> n]
Str(s) == [t |-> "str", s |-> s, n |-> 0]
Ref(id) == [t |-> "ref", s |-> <<>>, n |-> id]
Thrown == [t |-> "throw", s |-> <<>>, n |-> 0]

\* What formatRoute returns: `null` for an absent route, else the fields of
\* the returned object; an undefined field is a field the object lacks.
NoOutput ==
  [threw |-> FALSE, null |-> TRUE, routeString |-> Undef, paths |-> <<>>,
   tokenPath |-> <<>>, amountIn |-> Undef, amountOut |-> Undef,
   router |-> Undef, route |-> Undef, estimatedGasUsedQuoteToken |-> Undef,
   estimatedGasUsedUSD |-> Undef, quoteGasAdjusted |-> Undef]

\* The normalizer before it is applied to a raw result.
NoNorm ==
  [pc |-> "none",
   f |-> [shape |-> "null", tokens |-> "none", pools |-> "none",
          amounts |-> "none", list |-> "none", to |-> FALSE, str |-> "plain"],
   inputToken |-> <<>>, outputToken |-> <<>>, out |-> NoOutput,
   copy |-> [threw |-> FALSE, leaves |-> {}, descended |-> <<>>]]

\* The body of a response: empty fields stand for fields it does not carry.
NoBody ==
  [error |-> <<>>, suggestion |-> <<>>, requiredParams |-> {},
   supportedChains |-> {}, quoteId |-> <<>>]

\* The detailed request before it is received.
NoQuote ==
  [pc |-> "new", missing |-> "none", chainId |-> 0, tokenIn |-> <<>>,
   tokenOut |-> <<>>, amount |-> <<>>, type |-> "exactIn", calls |-> {},
   decimalsIn |-> 0, decimalsOut |-> 0, amountWei |-> <<>>,
   amountToken |-> "none", failedAt |-> "none", upstream |-> <<>>,
   responses |-> 0, status |-> 0, body |-> NoBody]

\* A request before it is received.  steps lists the steps of getQuote the
\* request has entered, failed names the step that raised, block is the
\* value of currentBlock and pinned the blockNumber handed to router.route.
NoRequest ==
  [pc |-> "new", status |-> 0, quoteId |-> <<>>, concurrent |-> FALSE,
   steps |-> <<>>, failed |-> "none", block |-> 0, pinned |-> 0]

\* Block heights provider.getBlockNumber() may return.
BlockNumbers == {100, 101}

InFlight(r) == req[r].pc \in {"awaitTokens", "awaitBlock", "awaitRoute"}

\* res.status(code).json(body): the request is answered.
\* entered lists the steps entered since the request last resumed and failed
\* the step that raised, if any.
Respond(r, code, quoteId, entered, failed) ==
  req' = [req EXCEPT ![r] =
            [@ EXCEPT !.pc = "done", !.status = code, !.quoteId = quoteId,
                      !.steps = @ \o entered \o <<"response">>,
                      !.failed = failed]]

\* getQuote up to its first suspension: the parameter and chain checks answer
\* 400; RouterService.getQuote throws when the chain has no router (500);
\* otherwise both getTokenInfo calls are started and the request suspends.
GetQuoteStart(r) ==
  /\ req[r].pc = "new"
  /\ \E paramsPresent \in BOOLEAN, chainId \in RequestChainIds,
        routerInitialised \in BOOLEAN :
       IF ~paramsPresent \/ ~isChainSupported(chainId)
       THEN Respond(r, 400, <<>>, <<"validation">>, "validation")
       ELSE IF ~routerInitialised
       THEN Respond(r, 500, <<>>, <<"validation">>, "router")
       ELSE req' = [req EXCEPT ![r] =
                      [@ EXCEPT !.pc = "awaitTokens",
                                !.steps = <<"validation", "tokens">>,
                                !.concurrent = \E q \in Requests : InFlight(q)]]
  /\ UNCHANGED <<now, genVars, issuedIds, tokVars, quote, norm>>

\* Promise.all of the two getTokenInfo calls settles: a rejection, or an
\* amount parseUnits rejects, ends in handleError; otherwise the block height
\* is requested and the request suspends again.
TokensSettled(r) ==
  /\ req[r].pc = "awaitTokens"
  /\ \E resolved \in BOOLEAN, amountParses \in BOOLEAN :
       IF ~resolved
       THEN Respond(r, 500, <<>>, <<>>, "tokens")
       ELSE IF ~amountParses
       THEN Respond(r, 500, <<>>, <<"amount">>, "amount")
       ELSE req' = [req EXCEPT ![r] =
                      [@ EXCEPT !.pc = "awaitBlock",
                                !.steps = @ \o <<"amount", "block">>]]
  /\ UNCHANGED <<now, genVars, issuedIds, tokVars, quote, norm>>

\* { blockNumber: currentBlock }: the routing configuration of the call.
PinnedBlockOfFirstRequest(r, currentBlock) == req[1].block
PinnedBlock(r, currentBlock) == currentBlock

\* provider.getBlockNumber() settles; router.route is called on success.
BlockNumberSettled(r) ==
  /\ req[r].pc = "awaitBlock"
  /\ \E ok \in BOOLEAN, currentBlock \in BlockNumbers :
       IF ok
       THEN req' = [req EXCEPT ![r] =
                      [@ EXCEPT !.pc = "awaitRoute",
                                !.block = currentBlock,
                                !.pinned = PinnedBlock(r, currentBlock),
                                !.steps = @ \o <<"route">>]]
       ELSE Respond(r, 500, <<>>, <<>>, "block")
  /\ UNCHANGED <<now, genVars, issuedIds, tokVars, quote, norm>>

\* router.route settles without a usable route (it threw, or returned null):
\* RouterService.getQuote throws and handleError answers 500.
RouteFailed(r) ==
  /\ req[r].pc = "awaitRoute"
  /\ Respond(r, 500, <<>>, <<>>, "route")
  /\ UNCHANGED <<now, genVars, issuedIds, tokVars, quote, norm>>

\* router.route returns a route: the rest of getQuote runs to completion
\* without suspending: the response is assembled, generateQuoteId calls
\* nextId, and the response is sent; an exception of nextId ends in
\* handleError.
RouteFound(r) ==
  /\ req[r].pc = "awaitRoute"
  /\ nextId(1)
  /\ IF lastCall'[1].ok
     THEN Respond(r, 200, generateQuoteId(lastCall'[1].id),
                  <<"normalization", "identifier">>, "none")
     ELSE Respond(r, 500, <<>>, <<"normalization", "identifier">>,
                  "identifier")
  /\ UNCHANGED <<issuedIds, tokVars, quote, norm>>

InitSvc ==
  /\ now \in ClockValues
  /\ InitGenerator
  /\ issuedIds = [i \in Instances |-> {}]
  /\ req = [r \in Requests |-> NoRequest]
  /\ quote = NoQuote
  /\ norm = NoNorm
  /\ InitTok

NextSvc ==
  \/ Tick
  \/ \E r \in Requests : GetQuoteStart(r)
  \/ \E r \in Requests : TokensSettled(r)
  \/ \E r \in Requests : BlockNumberSettled(r)
  \/ \E r \in Requests : RouteFailed(r)
  \/ \E r \in Requests : RouteFound(r)

SpecSvc == InitSvc /\ [][NextSvc]_vars

(***************************************************************************)
(* Several instances of the service, each issuing quote identifiers.       *)
(***************************************************************************)
\* One response of instance i: generateQuoteId on its own generator.
IssueQuoteId(i) ==
  /\ Cardinality(issuedIds[i]) < MaxCalls
  /\ nextId(i)
  /\ issuedIds' = [issuedIds EXCEPT ![i] =
                     IF lastCall'[i].ok
                     THEN @ \cup {generateQuoteId(lastCall'[i].id)}
                     ELSE @]
  /\ UNCHANGED <<svcVars, tokVars>>

NextMulti == Tick \/ \E i \in Instances : IssueQuoteId(i)

SpecMulti == InitSvc /\ [][NextMulti]_vars

(***************************************************************************)
(* The token resolver under concurrent getTokenInfo calls.                 *)
(***************************************************************************)
InitResolver ==
  /\ InitSvc
  /\ now = twepoch

SpecTok == InitResolver /\ [][NextTok]_vars

(***************************************************************************)
(* One generator under an arbitrary clock.                                 *)
(***************************************************************************)
Init == InitSvc

CallNextId ==
  /\ nextId(1)
  /\ UNCHANGED <<issuedIds, svcVars, tokVars>>

Next == Tick \/ CallNextId

Spec == Init /\ [][Next]_vars

(***************************************************************************)
(* One quote request in detail: QuoteController.getQuote,                  *)
(* RouterService.getQuote and QuoteController.handleError.                 *)
(***************************************************************************)
\* The characters of a string literal.
Chars(str) == [k \in 1..Len(str) |-> SubSeq(str, k, k)]

IsDigit(c) == \E d \in 1..Len(DigitChars) : DigitChars[d] = c

Zeros(n) == [k \in 1..n |-> "0"]

RECURSIVE StripLeadingZeros(_)
StripLeadingZeros(s) ==
  IF Len(s) > 1 /\ Head(s) = "0" THEN StripLeadingZeros(Tail(s)) ELSE s

RECURSIVE TrimTrailingZeros(_)
TrimTrailingZeros(s) ==
  IF s # <<>> /\ s[Len(s)] = "0"
  THEN TrimTrailingZeros(SubSeq(s, 1, Len(s) - 1))
  ELSE s

\* ethers.utils.parseUnits(value, decimals) for a value without sign: the
\* value is split at the decimal point, the fraction loses its trailing
\* zeros, must fit the decimals and is padded to them; the result is
\* whole * 10^decimals + fraction.  ok is FALSE where the library throws.
parseUnits(value, decimals) ==
  LET dots == {k \in 1..Len(value) : value[k] = "."}
      wellFormed ==
        /\ value # <<>>
        /\ value # <<".">>
        /\ \A k \in 1..Len(value) : IsDigit(value[k]) \/ value[k] = "."
        /\ Cardinality(dots) <= 1
      dot == IF dots = {} THEN Len(value) + 1 ELSE CHOOSE k \in dots : TRUE
      whole == IF dot = 1 THEN <<"0">> ELSE SubSeq(value, 1, dot - 1)
      rawFraction == IF dot >= Len(value) THEN <<"0">>
                     ELSE SubSeq(value, dot + 1, Len(value))
      fraction == TrimTrailingZeros(rawFraction)
  IN IF ~wellFormed \/ Len(fraction) > decimals
     THEN [ok |-> FALSE, wei |-> <<>>]
     ELSE [ok |-> TRUE,
           wei |-> StripLeadingZeros(
                     whole \o fraction \o Zeros(decimals - Len(fraction)))]

\* The parameters of a request that getQuote requires.
RequiredParams == {"chainId", "tokenIn", "tokenOut", "amount"}

\* The chains of the first else-branches of getQuote's route errors.
KnownGoodChains == {1, 10, 42161, 137, 8453}

\* Chain ids a detailed request may carry: a known-good chain, BNB, another
\* configured chain, and a chain that is not configured.
QuoteChainIds == {1, 56, 43114, 999}

QuoteTokens == {Chars("ETH"), UsdcAddressMixed, Chars("0x12")}

QuoteAmounts == {Chars("1"), Chars("1.5"), Chars("0.0000001"), Chars("abc")}

QuoteTypes == {"exactIn", "exactOut"}

\* Decimals a resolved ERC20 descriptor may carry (cache or contract value,
\* or the default of the fallback).
ResolvedDecimals == {6, 18}

\* Messages of the exceptions the RPC provider or the routing engine raise.
UpstreamMessages ==
  {<<>>, Chars("timeout"), Chars("at AlphaRouter.route (router.js:10:5)"),
   Chars("BNB chain RPC down")}

Msg_MissingParams == Chars("Missing required parameters")
Msg_UnsupportedChain == Chars("Unsupported chain ID")
Msg_UnknownError == Chars("An unknown error occurred")
Msg_NoLiquidity ==
  Chars("No route found. There may not be enough liquidity for this trade.")
Msg_InvalidDecimal == Chars("invalid decimal value")
Msg_Circular == Chars("Converting circular structure to JSON")
Msg_BnbSuggestion ==
  Chars("For BNB Chain, consider using PancakeSwap API or SDK instead.")
Msg_GenericSuggestion ==
  Chars("Consider using a chain-specific DEX that supports this blockchain.")

\* throw new Error(`Chain ID ${chainId} is not supported`)
Msg_ChainNotSupported(chainId) ==
  Chars("Chain ID ") \o toString(chainId) \o Chars(" is not supported")

\* throw new Error(`Failed to fetch token info for ${tokenAddress} on chain ${chainId}`)
Msg_TokenInfoFailed(tokenAddress, chainId) ==
  Chars("Failed to fetch token info for ") \o tokenAddress
    \o Chars(" on chain ") \o toString(chainId)

\* The error RouterService.getQuote throws after router.route has thrown.
Msg_RouteThrewAnyChain(chainId, message) ==
  Chars("Error finding route: ")
    \o (IF message # <<>> THEN message ELSE Chars("Unknown error"))
Msg_RouteThrew(chainId, message) ==
  IF chainId \notin KnownGoodChains
  THEN Chars("Unable to find route. Chain ") \o toString(chainId)
         \o Chars(" may not be supported by Uniswap. Consider using a chain-specific DEX instead.")
  ELSE Chars("Error finding route: ")
         \o (IF message # <<>> THEN message ELSE Chars("Unknown error"))

\* The error RouterService.getQuote throws when router.route returned null.
Msg_NoRouteWithoutChain(chainId) == Msg_NoLiquidity
Msg_NoRoute(chainId) ==
  IF chainId \in KnownGoodChains
  THEN Msg_NoLiquidity
  ELSE Chars("No route found. Chain ") \o toString(chainId)
         \o Chars(" may not be fully supported by Uniswap. Consider using a chain-specific DEX instead.")

\* throw new Error(`Clock moved backwards. Refusing to generate ID for ... milliseconds`)
Msg_ClockMovedBackwards(timestamp, last) ==
  Chars("Clock moved backwards. Refusing to generate ID for ")
    \o toString(last - timestamp) \o Chars(" milliseconds")

\* errorMessage.match(/Chain (\d+)/) and parseInt of the group: 0 when there
\* is no match.
MatchChainId(message) ==
  LET prefix == Chars("Chain ")
      starts == {k \in 1..(Len(message) - Len(prefix)) :
                   /\ SubSeq(message, k, k + Len(prefix) - 1) = prefix
                   /\ IsDigit(message[k + Len(prefix)])}
  IN IF starts = {} THEN 0
     ELSE LET k == CHOOSE k1 \in starts : \A k2 \in starts : k1 <= k2
              from == k + Len(prefix)
              to == CHOOSE e \in from..Len(message) :
                      /\ \A j \in from..e : IsDigit(message[j])
                      /\ e = Len(message) \/ ~IsDigit(message[e + 1])
          IN DigitsValue(SubSeq(message, from, to))

\* handleError: the body of the 500 response; an empty suggestion stands for
\* a body without the field.
handleErrorWithoutDefault(message) ==
  LET errorMessage == message
      suggestion ==
        IF \/ includes(errorMessage, Chars("Chain 56"))
           \/ includes(toLowerCase(errorMessage), Chars("bnb chain"))
        THEN Msg_BnbSuggestion
        ELSE IF includes(errorMessage, Chars("may not be fully supported by Uniswap"))
        THEN LET chainId == MatchChainId(errorMessage) IN
             IF chainId # 0
             THEN Chars("Consider using a native DEX for chain ")
                    \o toString(chainId) \o Chars(".")
             ELSE Msg_GenericSuggestion
        ELSE <<>>
  IN [NoBody EXCEPT !.error = errorMessage, !.suggestion = suggestion]
handleError(message) ==
  LET errorMessage == IF message # <<>> THEN message ELSE Msg_UnknownError
      suggestion ==
        IF \/ includes(errorMessage, Chars("Chain 56"))
           \/ includes(toLowerCase(errorMessage), Chars("bnb chain"))
        THEN Msg_BnbSuggestion
        ELSE IF includes(errorMessage, Chars("may not be fully supported by Uniswap"))
        THEN LET chainId == MatchChainId(errorMessage) IN
             IF chainId # 0
             THEN Chars("Consider using a native DEX for chain ")
                    \o toString(chainId) \o Chars(".")
             ELSE Msg_GenericSuggestion
        ELSE <<>>
  IN [NoBody EXCEPT !.error = errorMessage, !.suggestion = suggestion]

\* res.status(code).json(body)
Send(q, code, body) ==
  [q EXCEPT !.pc = "done", !.responses = @ + 1, !.status = code, !.body = body]

\* catch (error) { this.handleError(error, res) } after the step `at` failed
Fail(q, at, message) ==
  Send([q EXCEPT !.failedAt = at], 500, handleError(message))

\* getTokenInfo as getQuote sees it: the native currency (18 decimals), a
\* descriptor with some decimals, or an exception for what is no address.
ResolveOutcomes(tokenAddress) ==
  IF isNative(tokenAddress) THEN {[ok |-> TRUE, decimals |-> 18]}
  ELSE IF IsAddress(tokenAddress)
  THEN {[ok |-> TRUE, decimals |-> d] : d \in ResolvedDecimals}
  ELSE {[ok |-> FALSE, decimals |-> 0]}

\* const tokenDecimals = type === 'exactIn' ? tokenIn.decimals : tokenOut.decimals
TokenDecimalsOfInput(type, decimalsIn, decimalsOut) == decimalsIn
TokenDecimals(type, decimalsIn, decimalsOut) ==
  IF type = "exactIn" THEN decimalsIn ELSE decimalsOut

(***************************************************************************)
(* The route normalizer: QuoteController.formatRoute, its helpers and      *)
(* createSafeRouteCopy, applied to the object graph router.route returns.  *)
(***************************************************************************)
\* An object or array of the raw result: its own properties in insertion
\* order (the items, for an array), the properties whose read throws, what
\* its toExact method returns (undefined: it has no such method) and what
\* its toString method returns (undefined: Object.prototype.toString).
JsObject(kind, props, throws, toExactResult, toStringResult) ==
  [kind |-> kind, props |-> props, throws |-> throws,
   toExact |-> toExactResult, str |-> toStringResult]

\* Truthiness of a value in a condition, `||` and `&&`.
Truthy(v) ==
  ~ \/ v.t \in {"undef", "throw"}
    \/ v.t = "str" /\ v.s = <<>>
    \/ v.t = "num" /\ v.n = 0

\* a || b and a && b; b is evaluated only when a does not decide.
Or(a, b) == IF a = Thrown \/ Truthy(a) THEN a ELSE b
And(a, b) == IF a = Thrown \/ ~Truthy(a) THEN a ELSE b

\* v.key, and v?.key when optional: reading a property of undefined raises
\* a TypeError, a getter may throw, a missing property is undefined.
Get(heap, v, key, optional) ==
  IF v = Thrown THEN Thrown
  ELSE IF v.t = "undef" THEN IF optional THEN Undef ELSE Thrown
  ELSE IF v.t # "ref" THEN Undef
  ELSE LET o == heap[v.n] IN
       IF key \in o.throws THEN Thrown
       ELSE IF \E k \in 1..Len(o.props) : o.props[k].k = key
       THEN o.props[CHOOSE k \in 1..Len(o.props) : o.props[k].k = key].v
       ELSE Undef

\* Array.isArray(v)
IsArray(heap, v) == v.t = "ref" /\ heap[v.n].kind = "arr"

\* v?.toExact?.()
toExact(heap, v) ==
  IF v.t = "ref" THEN heap[v.n].toExact ELSE IF v = Thrown THEN Thrown ELSE Undef

\* v?.toString(), which is also how Array.prototype.join and `+` turn an
\* element into text (join renders undefined as the empty string).
ToStringOf(heap, v) ==
  IF v.t = "num" THEN Str(toString(v.n))
  ELSE IF v.t = "ref"
  THEN IF heap[v.n].str = Undef THEN Str(Chars("[object Object]"))
       ELSE heap[v.n].str
  ELSE v

\* items.join(separator): Thrown when turning an element into text throws.
RECURSIVE join(_, _, _)
join(heap, items, separator) ==
  IF items = <<>> THEN Str(<<>>)
  ELSE LET first == ToStringOf(heap, Head(items))
           rest == join(heap, Tail(items), separator)
       IN IF first = Thrown \/ rest = Thrown THEN Thrown
          ELSE IF Len(items) = 1 THEN Str(first.s)
          ELSE Str(first.s \o separator \o rest.s)

\* The separator of route labels, ' → ': the element "->" stands for the
\* one character U+2192.
Arrow == <<" ", "->", " ">>

\* pool.fee ? `${(pool.fee / 10000).toFixed(2)}%` : 'Unknown', for an
\* integer fee: toFixed(2) rounds to hundredths.
FeeString(fee) ==
  IF fee = Thrown THEN Thrown
  ELSE IF ~Truthy(fee) THEN Str(Chars("Unknown"))
  ELSE LET hundredths == (fee.n + 50) \div 100
           fraction == toString(hundredths % 100)
       IN Str(toString(hundredths \div 100) \o <<".">>
              \o (IF Len(fraction) = 1 THEN <<"0">> ELSE <<>>) \o fraction
              \o <<"%">>)

\* The shapes of raw result the normalizer is applied to, by feature:
\*   shape    no result; a trade with one swap; only the flatter fields
\*   tokens   no token path; a path of one token; a path of two tokens; a
\*            token path whose read throws
\*   pools    no pool list; one pool with fee, liquidity and both token
\*            references; one pool without token references; a list whose
\*            only item is undefined
\*   amounts  no amount; amounts on the swap; toExact amounts on the route;
\*            a toExact quote only
\*   list     no route list; a list of one route object; that object with a
\*            field pointing back to itself; or with one pointing to the root
\*   to       methodParameters.to is present
\*   str      toString of the result: inherited, its own, or throwing
RawFeatures ==
  [shape : {"null", "trade", "flat"},
   tokens : {"none", "one", "two", "getter"},
   pools : {"none", "ok", "bare", "hole"},
   amounts : {"none", "hop", "route", "quote"},
   list : {"none", "plain", "self", "ancestor"}, to : BOOLEAN,
   str : {"plain", "custom", "throws"}]

\* The object graph with features f: object 1 is the result itself, and
\* the value handed to the normalizer is a reference to it (undefined when
\* there is no result).
BuildRaw(f) ==
  LET P(c, k, v) == IF c THEN <<[k |-> k, v |-> v]>> ELSE <<>>
      Plain(props) == JsObject("obj", props, {}, Undef, Undef)
      Amount(text, token) ==
        JsObject("obj", P(TRUE, "currency", Ref(token)), {}, Str(Chars(text)),
                 Undef)
      Token(symbol, address, decimals) ==
        Plain(P(TRUE, "symbol", Str(Chars(symbol)))
              \o P(TRUE, "address", Str(Chars(address)))
              \o P(TRUE, "decimals", Num(decimals)))
      lists == P(f.tokens \in {"one", "two"}, "tokenPath", Ref(6))
               \o P(f.pools # "none", "pools", Ref(9))
      getters == IF f.tokens = "getter" THEN {"tokenPath"} ELSE {}
      result ==
        JsObject("obj",
          P(f.shape = "trade", "trade", Ref(2))
          \o (IF f.shape = "flat" THEN lists ELSE <<>>)
          \o P(f.list # "none", "route", Ref(11))
          \o P(f.to, "methodParameters", Ref(15))
          \o P(f.amounts = "route", "amountIn", Ref(13))
          \o P(f.amounts = "route", "amountOut", Ref(14))
          \o P(f.amounts = "quote", "quote", Ref(17))
          \o P(TRUE, "estimatedGasUsedQuoteToken", Ref(16))
          \o P(TRUE, "estimatedGasUsedUSD", Ref(16))
          \o P(TRUE, "quoteGasAdjusted", Ref(17)),
          IF f.shape = "flat" THEN getters ELSE {},
          Undef,
          CASE f.str = "plain" -> Undef
            [] f.str = "custom" -> Str(Chars("V3 route"))
            [] OTHER -> Thrown)
  IN [heap |->
        << result,
           Plain(P(TRUE, "swaps", Ref(3))),
           JsObject("arr", P(TRUE, "0", Ref(4)), {}, Undef, Undef),
           Plain(P(TRUE, "route", Ref(5))
                 \o P(f.amounts = "hop", "inputAmount", Ref(13))
                 \o P(f.amounts = "hop", "outputAmount", Ref(14))),
           JsObject("obj", lists \o P(TRUE, "protocol", Str(Chars("V3"))),
                    getters, Undef, Undef),
           JsObject("arr",
                    P(TRUE, "0", Ref(7)) \o P(f.tokens # "one", "1", Ref(8)),
                    {}, Undef, Undef),
           Token("WETH", "0xA1", 18),
           Token("USDC", "0xB2", 6),
           JsObject("arr",
                    P(TRUE, "0", IF f.pools = "hole" THEN Undef ELSE Ref(10)),
                    {}, Undef, Undef),
           Plain(P(TRUE, "fee", Num(IF f.pools = "ok" THEN 3000 ELSE 500))
                 \o P(f.pools = "ok", "liquidity", Num(1000))
                 \o P(f.pools = "ok", "token0", Ref(7))
                 \o P(f.pools = "ok", "token1", Ref(8))
                 \o P(f.pools = "ok", "address", Str(Chars("0xP1")))),
           JsObject("arr", P(TRUE, "0", Ref(12)), {}, Undef, Undef),
           Plain(P(TRUE, "protocol", Str(Chars("V3")))
                 \o P(f.pools # "none", "pools", Ref(9))
                 \o P(TRUE, "fee", Num(3000))
                 \o P(f.list = "self", "self", Ref(12))
                 \o P(f.list = "ancestor", "parent", Ref(1))),
           Amount("1.5", 7),
           Amount("2700", 8),
           Plain(P(TRUE, "to", Str(Chars("0xR0")))),
           Amount("0.01", 8),
           Amount("2699.9", 8) >>,
      route |-> IF f.shape = "null" THEN Undef ELSE Ref(1)]

\* Every value the returned object holds, at any depth.
OutValues(out) ==
  {out.routeString, out.amountIn, out.amountOut, out.router, out.route,
   out.estimatedGasUsedQuoteToken, out.estimatedGasUsedUSD,
   out.quoteGasAdjusted}
  \cup UNION {{out.tokenPath[k].symbol, out.tokenPath[k].address,
               out.tokenPath[k].decimals} : k \in 1..Len(out.tokenPath)}
  \cup UNION {{out.paths[k].protocol, out.paths[k].raw, out.paths[k].fee}
              \cup {out.paths[k].path[j] : j \in 1..Len(out.paths[k].path)}
              \cup UNION {LET pool == out.paths[k].pools[j]
                          IN {pool.fee, pool.liquidity, pool.symbol0,
                              pool.address0, pool.symbol1, pool.address1,
                              pool.address}
                          : j \in 1..Len(out.paths[k].pools)}
              : k \in 1..Len(out.paths)}

\* extractRoutePaths: the hop list from the flatter fields; its own catch
\* turns any exception into the empty list.  A hop has a protocol, a path
\* (a list built here, or `raw`: an array of the raw result taken as it
\* is), a fee and, in the first branch, its pools.
extractRoutePaths(heap, route) ==
  LET G(v, key) == Get(heap, v, key, FALSE)
      Items(v) == [k \in 1..Len(heap[v.n].props) |-> heap[v.n].props[k].v]
      Unknown == Str(Chars("Unknown"))
      PoolId(pool) ==
        Or(Or(G(pool, "address"), G(pool, "id")), Str(Chars("Unknown pool")))
      Hop(protocol, path, raw, fee, pools) ==
        [protocol |-> protocol, path |-> path, raw |-> raw, fee |-> fee,
         pools |-> pools]
      Caught(paths) ==
        IF Thrown \in OutValues([NoOutput EXCEPT !.paths = paths])
        THEN <<>> ELSE paths
      \* findPoolAddresses(path)
      findPoolAddresses(path) ==
        LET poolAddresses == G(path, "poolAddresses")
            pathPools == G(path, "pools")
            pool == G(path, "pool")
            address == Get(heap, pool, "address", TRUE)
        IN IF poolAddresses = Thrown \/ IsArray(heap, poolAddresses)
           THEN [raw |-> poolAddresses, path |-> <<>>]
           ELSE IF pathPools = Thrown
           THEN [raw |-> Thrown, path |-> <<>>]
           ELSE IF Truthy(pathPools) /\ IsArray(heap, pathPools)
           THEN [raw |-> Undef,
                 path |-> [k \in 1..Len(Items(pathPools)) |->
                             PoolId(Items(pathPools)[k])]]
           ELSE IF pool = Thrown \/ address = Thrown
           THEN [raw |-> Thrown, path |-> <<>>]
           ELSE IF Truthy(address)
           THEN [raw |-> Undef, path |-> <<address>>]
           ELSE [raw |-> Undef, path |-> <<>>]
      pools == G(route, "pools")
      list == G(route, "route")
      methodParameters == G(route, "methodParameters")
      to == And(methodParameters, G(methodParameters, "to"))
      path == G(route, "path")
  IN IF pools = Thrown THEN <<>>
     ELSE IF Truthy(pools) /\ IsArray(heap, pools)
     THEN Caught(<<Hop(
            Str(Chars("V3")),
            [k \in 1..Len(Items(pools)) |-> PoolId(Items(pools)[k])],
            Undef,
            join(heap, [k \in 1..Len(Items(pools)) |->
                          FeeString(G(Items(pools)[k], "fee"))],
                 <<",", " ">>),
            [k \in 1..Len(Items(pools)) |->
               LET pool == Items(pools)[k] IN
               [fee |-> FeeString(G(pool, "fee")),
                liquidity |-> Or(ToStringOf(heap, G(pool, "liquidity")),
                                 Unknown),
                symbol0 |-> Undef, address0 |-> Undef,
                symbol1 |-> Undef, address1 |-> Undef,
                address |-> PoolId(pool)]])>>)
     ELSE IF list = Thrown THEN <<>>
     ELSE IF IsArray(heap, list)
     THEN Caught([k \in 1..Len(Items(list)) |->
            LET hop == Items(list)[k]
                poolAddresses == findPoolAddresses(hop)
            IN Hop(Or(G(hop, "protocol"), Unknown),
                   poolAddresses.path, poolAddresses.raw,
                   Or(ToStringOf(heap, G(hop, "fee")), Unknown), <<>>)])
     ELSE IF to = Thrown THEN <<>>
     ELSE IF Truthy(to)
     THEN <<Hop(Unknown, <<>>, Undef, Unknown, <<>>)>>
     ELSE IF path = Thrown THEN <<>>
     ELSE IF Truthy(path)
     THEN Caught(<<Hop(Or(G(route, "protocol"), Unknown),
                       IF IsArray(heap, path) THEN <<>> ELSE <<path>>,
                       IF IsArray(heap, path) THEN path ELSE Undef,
                       Or(ToStringOf(heap, G(route, "fee")), Unknown),
                       <<>>)>>)
     ELSE <<>>

\* extractTokenPath: the token list from the flatter fields; its own catch
\* turns any exception into the empty list.
extractTokenPath(heap, route) ==
  LET G(v, key) == Get(heap, v, key, FALSE)
      Items(v) == [k \in 1..Len(heap[v.n].props) |-> heap[v.n].props[k].v]
      Unknown == Str(Chars("Unknown"))
      Entry(token, symbol) ==
        [symbol |-> Or(G(token, "symbol"), Str(Chars(symbol))),
         address |-> Or(G(token, "address"), Unknown), decimals |-> Undef]
      Caught(tokens) ==
        IF Thrown \in OutValues([NoOutput EXCEPT !.tokenPath = tokens])
        THEN <<>> ELSE tokens
      tokenPath == G(route, "tokenPath")
      tokenIn == G(route, "tokenIn")
      tokenOut == G(route, "tokenOut")
      input == G(route, "input")
      output == G(route, "output")
      routeQuote == G(route, "quote")
      currency == G(routeQuote, "currency")
  IN IF tokenPath = Thrown THEN <<>>
     ELSE IF Truthy(tokenPath) /\ IsArray(heap, tokenPath)
     THEN Caught([k \in 1..Len(Items(tokenPath)) |->
                    Entry(Items(tokenPath)[k], "Unknown")])
     ELSE IF And(tokenIn, tokenOut) = Thrown THEN <<>>
     ELSE IF Truthy(And(tokenIn, tokenOut))
     THEN Caught(<<Entry(tokenIn, "Input Token"),
                   Entry(tokenOut, "Output Token")>>)
     ELSE IF Or(input, output) = Thrown THEN <<>>
     ELSE IF Truthy(Or(input, output))
     THEN Caught((IF Truthy(input) THEN <<Entry(input, "Input")>> ELSE <<>>)
                 \o (IF Truthy(output) THEN <<Entry(output, "Output")>>
                     ELSE <<>>))
     ELSE IF And(routeQuote, currency) = Thrown THEN <<>>
     ELSE IF Truthy(And(routeQuote, currency))
     THEN IF G(currency, "symbol") = Thrown THEN <<>>
          ELSE IF Truthy(G(currency, "symbol"))
          THEN Caught(<<[symbol |-> Str(Chars("Input")), address |-> Unknown,
                         decimals |-> Undef],
                        [symbol |-> G(currency, "symbol"),
                         address |-> Or(G(currency, "address"), Unknown),
                         decimals |-> Undef]>>)
          ELSE <<>>
     ELSE <<>>

\* getReadableRouteString: the label of the route in the branch without a
\* trade; its own catch turns any exception into a fixed text.
getReadableRouteString(heap, route, tokenPath) ==
  LET G(v, key) == Get(heap, v, key, FALSE)
      Items(v) == [k \in 1..Len(heap[v.n].props) |-> heap[v.n].props[k].v]
      Caught(label) ==
        IF label = Thrown THEN Str(Chars("Error getting route string"))
        ELSE label
      routeStr == ToStringOf(heap, route)
      routeTokenPath == G(route, "tokenPath")
      list == G(route, "route")
      protocols ==
        join(heap, [k \in 1..Len(Items(list)) |->
                      Or(G(Items(list)[k], "protocol"), Str(Chars("Unknown")))],
             <<"-">>)
  IN Caught(
       IF routeStr = Thrown THEN Thrown
       ELSE IF routeStr # Str(Chars("[object Object]")) THEN routeStr
       ELSE IF Len(tokenPath) >= 2
       THEN join(heap, [k \in 1..Len(tokenPath) |-> tokenPath[k].symbol], Arrow)
       ELSE IF routeTokenPath = Thrown THEN Thrown
       ELSE IF Truthy(routeTokenPath)
       THEN IF ~IsArray(heap, routeTokenPath) THEN Thrown
            ELSE join(heap, [k \in 1..Len(Items(routeTokenPath)) |->
                               G(Items(routeTokenPath)[k], "symbol")], Arrow)
       ELSE IF list = Thrown THEN Thrown
       ELSE IF IsArray(heap, list)
       THEN IF protocols = Thrown THEN Thrown
            ELSE Str(Chars("Route via ") \o protocols.s \o Chars(" protocol")
                     \o (IF Len(Items(list)) > 1 THEN <<"s">> ELSE <<>>))
       ELSE Str(Chars("Route details unavailable")))

\* formatRoute(route, inputToken, outputToken); a fallback token is <<>>
\* when the caller passes none, else a one-element tuple.
formatRoute(heap, route, inputToken, outputToken) ==
  LET G(v, key) == Get(heap, v, key, FALSE)
      Items(v) == [k \in 1..Len(heap[v.n].props) |-> heap[v.n].props[k].v]
      Unknown == Str(Chars("Unknown"))
      \* a + '-' + b
      Dashed(a, b) ==
        LET Text(v) == IF v = Undef THEN Str(Chars("undefined"))
                       ELSE ToStringOf(heap, v)
        IN IF Thrown \in {a, b, Text(a), Text(b)} THEN Thrown
           ELSE Str(Text(a).s \o <<"-">> \o Text(b).s)
      fallback == IF inputToken # <<>> /\ outputToken # <<>>
                  THEN inputToken \o outputToken ELSE <<>>
      trade == G(route, "trade")
      swaps == G(trade, "swaps")
      hasSwaps == And(trade, swaps)
      swap == Items(swaps)[1]
      hop == G(swap, "route")
      hopTokens == And(hop, G(hop, "tokenPath"))
      hopPools == And(hop, G(hop, "pools"))
      list == G(route, "route")
      to == Get(heap, G(route, "methodParameters"), "to", TRUE)
      router == IF to = Thrown \/ Truthy(to) THEN to ELSE Undef
      routeAmountIn ==
        Or(toExact(heap, G(route, "amountIn")), toExact(heap, G(route, "amount")))
      routeAmountOut ==
        Or(Or(toExact(heap, G(route, "amountOut")),
              toExact(heap, G(route, "quote"))),
           G(route, "quoteAmount"))
      \* lines 264-337: the trade with its first swap
      tokenPath ==
        IF Truthy(hopTokens) /\ IsArray(heap, hopTokens)
        THEN [k \in 1..Len(Items(hopTokens)) |->
                LET token == Items(hopTokens)[k] IN
                [symbol |-> Or(G(token, "symbol"), Unknown),
                 address |-> Or(G(token, "address"), Unknown),
                 decimals |-> G(token, "decimals")]]
        ELSE fallback
      paths ==
        IF Truthy(hopPools) /\ IsArray(heap, hopPools)
        THEN LET pools == Items(hopPools) IN
             <<[protocol |-> Or(G(hop, "protocol"), Str(Chars("V3"))),
                path |-> [k \in 1..Len(pools) |->
                            Dashed(G(G(pools[k], "token0"), "address"),
                                   G(G(pools[k], "token1"), "address"))],
                raw |-> Undef,
                fee |-> join(heap, [k \in 1..Len(pools) |->
                                      FeeString(G(pools[k], "fee"))],
                             <<",", " ">>),
                pools |-> [k \in 1..Len(pools) |->
                  LET pool == pools[k]
                      token0 == G(pool, "token0")
                      token1 == G(pool, "token1")
                  IN [fee |-> FeeString(G(pool, "fee")),
                      liquidity |-> Or(ToStringOf(heap, G(pool, "liquidity")),
                                       Unknown),
                      symbol0 |-> Or(Get(heap, token0, "symbol", TRUE), Unknown),
                      address0 |-> Or(Get(heap, token0, "address", TRUE), Unknown),
                      symbol1 |-> Or(Get(heap, token1, "symbol", TRUE), Unknown),
                      address1 |-> Or(Get(heap, token1, "address", TRUE), Unknown),
                      address |-> Undef]]]>>
        ELSE extractRoutePaths(heap, route)
      routeString ==
        IF Len(tokenPath) >= 2
        THEN join(heap, [k \in 1..Len(tokenPath) |-> tokenPath[k].symbol], Arrow)
        ELSE IF list = Thrown THEN Thrown
        ELSE IF Truthy(list) /\ IsArray(heap, list)
        THEN join(heap, Items(list), <<",", " ">>)
        ELSE Str(Chars("Route details unavailable"))
      structured ==
        [threw |-> FALSE, null |-> FALSE, routeString |-> routeString,
         paths |-> paths, tokenPath |-> tokenPath,
         amountIn |-> Or(Or(G(swap, "inputAmount"), routeAmountIn), Unknown),
         amountOut |-> Or(Or(G(swap, "outputAmount"), routeAmountOut), Unknown),
         router |-> router, route |-> list,
         estimatedGasUsedQuoteToken |-> G(route, "estimatedGasUsedQuoteToken"),
         estimatedGasUsedUSD |-> G(route, "estimatedGasUsedUSD"),
         quoteGasAdjusted |-> G(route, "quoteGasAdjusted")]
      \* lines 338-363: no trade
      extracted == extractTokenPath(heap, route)
      flatTokenPath ==
        IF Len(extracted) = 0 /\ fallback # <<>> THEN fallback ELSE extracted
      flat ==
        [NoOutput EXCEPT
           !.null = FALSE,
           !.routeString = getReadableRouteString(heap, route, flatTokenPath),
           !.paths = extractRoutePaths(heap, route),
           !.tokenPath = flatTokenPath,
           !.amountIn = Or(routeAmountIn, Unknown),
           !.amountOut = Or(routeAmountOut, Unknown),
           !.router = router]
      \* lines 364-373: the catch
      caught ==
        [NoOutput EXCEPT
           !.null = FALSE,
           !.routeString = Str(Chars("Error formatting route details")),
           !.tokenPath = fallback,
           !.amountIn = Unknown, !.amountOut = Unknown]
  IN IF ~Truthy(route) THEN NoOutput
     ELSE IF hasSwaps = Thrown THEN caught
     ELSE IF Truthy(hasSwaps) /\ IsArray(heap, swaps) /\ Len(Items(swaps)) > 0
     THEN IF Thrown \in {hopTokens, hopPools} \cup OutValues(structured)
          THEN caught ELSE structured
     ELSE IF Thrown \in OutValues(flat) THEN caught ELSE flat

\* makeSerializable of createSafeRouteCopy, with the copy as the set of its
\* leaves (position and value) and `descended` the objects entered so far,
\* in order: the visited set.  With from = 0 the value obj is copied to
\* position path; with from > 0 the properties (items) of the object obj,
\* from that one on, are.
RECURSIVE makeSerializable(_, _, _, _, _)
makeSerializable(heap, obj, path, descended, from) ==
  LET Leaf(p, v) == [threw |-> FALSE, leaves |-> {[path |-> p, v |-> v]},
                     descended |-> descended]
      Raised == [threw |-> TRUE, leaves |-> {}, descended |-> descended]
      o == heap[obj.n]
      entered == Append(descended, obj.n)
      key == o.props[from].k
      at == path \o <<key>>
      value == Get(heap, obj, key, FALSE)
      address == Get(heap, value, "address", FALSE)
      symbol == Get(heap, value, "symbol", FALSE)
      decimals == Get(heap, value, "decimals", FALSE)
      inner == makeSerializable(heap, value, at, descended, 0)
      this ==
        IF o.kind = "arr" THEN inner
        ELSE IF value = Thrown
        THEN Leaf(at, Str(Chars("[Error serializing property]")))
        ELSE IF /\ key \in {"currency", "token", "inputToken", "outputToken"}
                /\ Truthy(value) /\ And(address, symbol) = Thrown
        THEN Raised
        ELSE IF /\ key \in {"currency", "token", "inputToken", "outputToken"}
                /\ Truthy(value) /\ Truthy(address) /\ Truthy(symbol)
        THEN [threw |-> decimals = Thrown,
              leaves |-> {[path |-> at \o <<"address">>, v |-> address],
                          [path |-> at \o <<"symbol">>, v |-> symbol],
                          [path |-> at \o <<"decimals">>, v |-> decimals]},
              descended |-> descended]
        ELSE inner
      caught ==
        IF o.kind = "obj" /\ this.threw
        THEN [threw |-> FALSE,
              leaves |-> {[path |-> at,
                           v |-> Str(Chars("[Error serializing property]"))]},
              descended |-> this.descended]
        ELSE this
      rest == makeSerializable(heap, obj, path, caught.descended, from + 1)
  IN IF from > 0
     THEN IF from > Len(o.props) THEN [threw |-> FALSE, leaves |-> {},
                                       descended |-> descended]
          ELSE IF caught.threw THEN caught
          ELSE [threw |-> rest.threw, leaves |-> caught.leaves \cup rest.leaves,
                descended |-> rest.descended]
     ELSE IF obj.t # "ref" THEN Leaf(path, obj)
     ELSE IF \E k \in 1..Len(descended) : descended[k] = obj.n
     THEN Leaf(path, Str(Chars("[Circular]")))
     ELSE IF o.kind = "arr"
     THEN makeSerializable(heap, obj, path, entered, 1)
     ELSE IF o.toExact # Undef
     THEN [threw |-> o.toExact = Thrown,
           leaves |-> {[path |-> path, v |-> o.toExact]},
           descended |-> entered]
     ELSE IF o.str # Undef
     THEN [threw |-> o.str = Thrown, leaves |-> {[path |-> path, v |-> o.str]},
           descended |-> entered]
     ELSE makeSerializable(heap, obj, path, entered, 1)

\* JSON.stringify of a value holding the object out, as res.json does: it
\* raises when an object reachable from out lies on a cycle of references
\* or has a property whose read throws.
Serializable(heap, out) ==
  LET Successors(id) ==
        {heap[id].props[k].v.n :
           k \in {j \in 1..Len(heap[id].props) : heap[id].props[j].v.t = "ref"}}
      RECURSIVE Closure(_)
      Closure(ids) ==
        LET more == ids \cup UNION {Successors(id) : id \in ids}
        IN IF more = ids THEN ids ELSE Closure(more)
      embedded == {v.n : v \in {w \in OutValues(out) : w.t = "ref"}}
  IN \A id \in Closure(embedded) :
       /\ id \notin Closure(Successors(id))
       /\ heap[id].throws = {}

\* The descriptors getQuote passes as fallback tokens.
FallbackTokens ==
  [inputToken |-> <<[symbol |-> Str(Chars("Input")), address |-> Str(Chars("ETH")),
                     decimals |-> Undef]>>,
   outputToken |-> <<[symbol |-> Str(Chars("Output")),
                      address |-> Str(Chars("0xB2")), decimals |-> Undef]>>]

\* formatRoute and createSafeRouteCopy applied to the raw result.
Normalize ==
  /\ norm.pc = "raw"
  /\ LET raw == BuildRaw(norm.f) IN
     norm' = [norm EXCEPT
                !.pc = "done",
                !.out = formatRoute(raw.heap, raw.route, norm.inputToken,
                                    norm.outputToken),
                !.copy = IF ~Truthy(raw.route)
                         THEN [threw |-> FALSE, leaves |-> {}, descended |-> <<>>]
                         ELSE makeSerializable(raw.heap, raw.route, <<>>, <<>>, 0)]
  /\ UNCHANGED <<now, genVars, issuedIds, req, quote, tokVars>>

\* Any raw result, with both fallback tokens or without the input one.
InitNorm ==
  /\ now = twepoch
  /\ InitGenerator
  /\ issuedIds = [i \in Instances |-> {}]
  /\ req = [r \in Requests |-> NoRequest]
  /\ quote = NoQuote
  /\ InitTok
  /\ \E f \in RawFeatures, inputToken \in {<<>>, FallbackTokens.inputToken} :
       norm = [NoNorm EXCEPT !.pc = "raw", !.f = f,
                             !.inputToken = inputToken,
                             !.outputToken = FallbackTokens.outputToken]

SpecNorm == InitNorm /\ [][Normalize]_vars

\* getQuote up to the first await: the two validations (400), the router
\* check of RouterService.getQuote, then both getTokenInfo calls start.
QuoteReceive ==
  /\ quote.pc = "new"
  /\ \E missing \in RequiredParams \cup {"none"}, chainId \in QuoteChainIds,
        tokenIn \in QuoteTokens, tokenOut \in QuoteTokens,
        amount \in QuoteAmounts, type \in QuoteTypes,
        routerInitialised \in BOOLEAN :
       LET q == [quote EXCEPT !.missing = missing, !.chainId = chainId,
                              !.tokenIn = tokenIn, !.tokenOut = tokenOut,
                              !.amount = amount, !.type = type]
       IN quote' =
            IF missing # "none"
            THEN Send(q, 400, [NoBody EXCEPT !.error = Msg_MissingParams,
                                             !.requiredParams = RequiredParams])
            ELSE IF ~isChainSupported(chainId)
            THEN Send(q, 400, [NoBody EXCEPT !.error = Msg_UnsupportedChain,
                                             !.supportedChains = ConfiguredChains])
            ELSE IF ~routerInitialised
            THEN Fail(q, "router", Msg_ChainNotSupported(chainId))
            ELSE [q EXCEPT !.pc = "awaitTokens", !.calls = {"getTokenInfo"}]
  /\ UNCHANGED <<now, genVars, issuedIds, req, norm, tokVars>>

\* Promise.all of the two getTokenInfo calls settles; the amount is parsed
\* with the decimals of the token the trade type names; the block height is
\* requested.
QuoteTokensSettled ==
  /\ quote.pc = "awaitTokens"
  /\ \E tIn \in ResolveOutcomes(quote.tokenIn),
        tOut \in ResolveOutcomes(quote.tokenOut) :
       quote' =
         IF ~tIn.ok
         THEN Fail(quote, "tokens", Msg_TokenInfoFailed(quote.tokenIn, quote.chainId))
         ELSE IF ~tOut.ok
         THEN Fail(quote, "tokens", Msg_TokenInfoFailed(quote.tokenOut, quote.chainId))
         ELSE LET tokenDecimals == TokenDecimals(quote.type, tIn.decimals,
                                                 tOut.decimals)
                  amountWei == parseUnits(quote.amount, tokenDecimals)
                  q == [quote EXCEPT !.decimalsIn = tIn.decimals,
                                     !.decimalsOut = tOut.decimals]
              IN IF ~amountWei.ok
                 THEN Fail(q, "amount", Msg_InvalidDecimal)
                 ELSE [q EXCEPT !.pc = "awaitBlock",
                                !.amountWei = amountWei.wei,
                                !.amountToken = IF quote.type = "exactIn"
                                                THEN "in" ELSE "out",
                                !.calls = @ \cup {"getBlockNumber"}]
  /\ UNCHANGED <<now, genVars, issuedIds, req, norm, tokVars>>

\* provider.getBlockNumber() settles; on success router.route is called.
QuoteBlockSettled ==
  /\ quote.pc = "awaitBlock"
  /\ \/ quote' = [quote EXCEPT !.pc = "awaitRoute", !.calls = @ \cup {"route"}]
     \/ \E message \in UpstreamMessages :
          quote' = Fail([quote EXCEPT !.upstream = message], "block", message)
  /\ UNCHANGED <<now, genVars, issuedIds, req, norm, tokVars>>

\* router.route threw: the error is replaced by one of two messages.
QuoteRouteThrew ==
  /\ quote.pc = "awaitRoute"
  /\ \E message \in UpstreamMessages :
       quote' = Fail([quote EXCEPT !.upstream = message], "routeThrew",
                     Msg_RouteThrew(quote.chainId, message))
  /\ UNCHANGED <<now, genVars, issuedIds, req, norm, tokVars>>

\* router.route returned null.
QuoteNoRoute ==
  /\ quote.pc = "awaitRoute"
  /\ quote' = Fail(quote, "noRoute", Msg_NoRoute(quote.chainId))
  /\ UNCHANGED <<now, genVars, issuedIds, req, norm, tokVars>>

\* router.route returned a route; the rest of the request runs without an
\* await: the service reads the fields of its result, the controller logs
\* a createSafeRouteCopy of the route, normalizes it with formatRoute,
\* generates the quote id and sends the response, which res.json first
\* turns into JSON text.
QuoteRouteFound ==
  /\ quote.pc = "awaitRoute"
  /\ \E list \in {"plain", "self"}, str \in {"plain", "throws"},
        complete \in BOOLEAN :
       LET raw == BuildRaw([shape |-> "trade", tokens |-> "two", pools |-> "ok",
                            amounts |-> "route", list |-> list, to |-> TRUE,
                            str |-> str])
           safeRouteCopy == makeSerializable(raw.heap, raw.route, <<>>, <<>>, 0)
           routeWithExtraInfo ==
             formatRoute(raw.heap, raw.route, FallbackTokens.inputToken,
                         FallbackTokens.outputToken)
       IN IF ~complete \/ safeRouteCopy.threw
          THEN /\ \E message \in UpstreamMessages :
                    quote' = Fail([quote EXCEPT !.upstream = message],
                                  IF complete THEN "normalize" ELSE "result",
                                  message)
               /\ UNCHANGED <<now, genVars>>
          ELSE /\ nextId(1)
               /\ quote' =
                    IF ~lastCall'[1].ok
                    THEN Fail(quote, "quoteId",
                              Msg_ClockMovedBackwards(now, lastTimestamp[1]))
                    ELSE IF ~Serializable(raw.heap, routeWithExtraInfo)
                    THEN Fail(quote, "serialize", Msg_Circular)
                    ELSE Send(quote, 200,
                              [NoBody EXCEPT
                                 !.quoteId = generateQuoteId(lastCall'[1].id)])
  /\ UNCHANGED <<issuedIds, req, norm, tokVars>>

\* The generator of the process when the request arrives: fresh, or having
\* issued its latest identifier at the reading `last` of the clock.
InitQuote ==
  /\ now \in ClockValues
  /\ workerId = [i \in Instances |-> ControllerWorkerId]
  /\ dataCenterId = [i \in Instances |-> ControllerDataCenterId]
  /\ sequence = [i \in Instances |-> 0]
  /\ rejected = [i \in Instances |-> FALSE]
  /\ lastCall = [i \in Instances |-> [flip |-> FALSE, ok |-> FALSE, id |-> <<>>]]
  /\ \E last \in {-1} \cup ClockValues :
       /\ lastTimestamp = [i \in Instances |-> IF i = 1 THEN last ELSE -1]
       /\ hasIssued = [i \in Instances |-> i = 1 /\ last # -1]
       /\ maxIssued = [i \in Instances |->
                         IF i = 1 /\ last # -1
                         THEN toString(ComposeId(last, ControllerDataCenterId,
                                                 ControllerWorkerId, 0))
                         ELSE <<>>]
  /\ issuedIds = [i \in Instances |-> {}]
  /\ req = [r \in Requests |-> NoRequest]
  /\ quote = NoQuote
  /\ norm = NoNorm
  /\ InitTok

NextQuote ==
  \/ QuoteReceive
  \/ QuoteTokensSettled
  \/ QuoteBlockSettled
  \/ QuoteRouteThrew
  \/ QuoteNoRoute
  \/ QuoteRouteFound

SpecQuote == InitQuote /\ [][NextQuote]_vars

(***************************************************************************)
(* Claims about the identifier generator.                                  *)
(***************************************************************************)
\* Instance i has made a nextId call in this step.
Called(i) == lastCall'[i].flip # lastCall[i].flip

\* C1: every identifier nextId returns is numerically strictly greater than
\* every identifier the same generator returned before, whatever the clock
\* did between the calls (so none is repeated).
C1_StrictlyIncreasing ==
  [][\A i \in Instances :
       (Called(i) /\ lastCall'[i].ok /\ hasIssued[i])
         => NumericValue(lastCall'[i].id) > NumericValue(maxIssued[i])]_vars

\* C1 witness: an identifier was returned within the same millisecond as its
\* predecessor, after the clock had moved on from the epoch and after a call
\* had been refused.
C1_Witness ==
  /\ lastCall[1].ok
  /\ sequence[1] >= 1
  /\ lastTimestamp[1] > twepoch
  /\ rejected[1]

\* C2: a call that reads a clock value below lastTimestamp fails, the failed
\* call leaves sequence and lastTimestamp as they were, and a call that
\* succeeds after a refusal returns an identifier above all earlier ones.
C2_RollbackRejected ==
  [][\A i \in Instances :
       Called(i) =>
         /\ (now < lastTimestamp[i]) => ~lastCall'[i].ok
         /\ ~lastCall'[i].ok =>
              /\ sequence'[i] = sequence[i]
              /\ lastTimestamp'[i] = lastTimestamp[i]
              /\ maxIssued'[i] = maxIssued[i]
         /\ (rejected[i] /\ lastCall'[i].ok) =>
              NumericValue(lastCall'[i].id) > NumericValue(maxIssued[i])]_vars

\* C2 witness: a call was refused and a later call, made once the clock had
\* caught up, returned an identifier.
C2_Witness ==
  /\ rejected[1]
  /\ lastCall[1].ok
  /\ now >= lastTimestamp[1]

\* C3: no two 200 responses of one process carry the same quoteId, however
\* the requests interleave at their suspension points.
C3_DistinctQuoteIds ==
  \A r1, r2 \in Requests :
    (r1 # r2 /\ req[r1].status = 200 /\ req[r2].status = 200)
      => req[r1].quoteId # req[r2].quoteId

\* C3 witness: two requests that were in flight at the same time have both
\* been answered 200, with identifiers of the same millisecond.
C3_Witness ==
  /\ \A r \in {1, 2} : req[r].status = 200
  /\ req[1].concurrent \/ req[2].concurrent
  /\ sequence[1] >= 1

\* C4 (as claimed): identifiers issued by different instances never collide.
C4_NoCollisionAcrossInstances ==
  \A i, j \in Instances :
    i # j => issuedIds[i] \cap issuedIds[j] = {}

(***************************************************************************)
(* Claims about the token resolver.                                        *)
(***************************************************************************)
\* A getTokenInfo call has completed in the latest step.
Returned == lastReturn.kind # "none"

FallbackStages == {"override", "usdt", "usdc", "dai", "retry", "default"}

\* The cache has an entry for the reference's (chain id, lower-cased address).
Cached(cache, chainId, tokenAddress) ==
  /\ chainId \in DOMAIN cache
  /\ toLowerCase(tokenAddress) \in DOMAIN cache[chainId]

NativeReferences == {toLowerCase(a) : a \in NativeInputs}

\* C6: a reference equal, ignoring case, to a native alias or to a native
\* sentinel address is decided by the native test, before the cache is
\* consulted, and the call returns the chain's native currency with no RPC
\* call and without reading or writing the token cache.
C6_NativeWithoutRpcOrCache ==
  [][/\ \A a \in NativeInputs : isNative(a)
     /\ (lastReturn'.kind # "none" /\ lastReturn' # lastReturn
           /\ toLowerCase(lastReturn'.tokenAddress) \in NativeReferences)
          => /\ lastReturn'.kind = "native"
             /\ lastReturn'.stage = "native"
             /\ lastReturn'.rpc = 0
             /\ ~lastReturn'.cacheRead
             /\ tokensCache' = tokensCache
             /\ res' = res]_vars

\* C6 witness: a native reference written in mixed case was resolved to the
\* native currency.
C6_Witness ==
  /\ lastReturn.kind = "native"
  /\ lastReturn.tokenAddress # toLowerCase(lastReturn.tokenAddress)
  /\ lastReturn.rpc = 0

\* C7: the steps apply in the order native detection, cache lookup,
\* on-chain lookup, fallback, and the first that matches decides: the
\* on-chain lookup is issued only for a reference that is not native and
\* whose key is absent from the cache, and the fallback runs only after the
\* on-chain lookup has failed.
C7_CascadeOrder ==
  [][/\ \A s \in Resolutions :
          (res[s].pc = "idle" /\ res'[s].pc = "awaitPrimary")
            => /\ ~isNative(res'[s].tokenAddress)
               /\ ~Cached(tokensCache, res'[s].chainId, res'[s].tokenAddress)
     /\ \A s \in Resolutions :
          (res'[s].pc = "awaitRetry" /\ res[s].pc # "awaitRetry")
            => res[s].pc = "awaitPrimary" /\ res'[s].primary = "failed"
     /\ (lastReturn'.kind # "none" /\ lastReturn' # lastReturn)
          => /\ lastReturn'.stage = "native" <=> isNative(lastReturn'.tokenAddress)
             /\ lastReturn'.stage = "cache"
                  => /\ Cached(tokensCache, lastReturn'.chainId,
                               lastReturn'.tokenAddress)
                     /\ lastReturn'.rpc = 0
                     /\ lastReturn'.primary = "none"
             /\ lastReturn'.stage = "onchain" => lastReturn'.primary = "ok"
             /\ lastReturn'.stage \in FallbackStages
                  => lastReturn'.primary = "failed"]_vars

\* C7 witness: a resolution went through all four steps and was decided by
\* the decimals-only retry of the fallback.
C7_Witness ==
  /\ lastReturn.stage = "retry"
  /\ lastReturn.rpc = 4
  /\ lastReturn.primary = "failed"

\* C8: when the name/symbol/decimals calls succeed for an uncached token
\* the returned decimals are those of decimals(), the descriptor is in the
\* cache under (chain id, lower-cased address), entries are never removed,
\* and a call that starts while the key is cached, in any letter case,
\* issues no RPC call.
C8_OnChainResultCached ==
  [][/\ (lastReturn'.stage = "onchain" /\ lastReturn' # lastReturn)
          => LET c == lastReturn'.chainId
                 a == lastReturn'.tokenAddress
             IN /\ lastReturn'.decimals = OnChainInfo(c, a).decimals
                /\ Cached(tokensCache', c, toLowerCase(a))
                /\ tokensCache'[c][toLowerCase(a)] = OnChainInfo(c, a)
     /\ \A c \in DOMAIN tokensCache : \A a \in DOMAIN tokensCache[c] :
          c \in DOMAIN tokensCache' /\ a \in DOMAIN tokensCache'[c]
     /\ \A s \in Resolutions :
          (res[s].pc = "idle" /\ res'[s].pc # "idle")
            => ~Cached(tokensCache, res'[s].chainId, res'[s].tokenAddress)
     /\ (res' = res /\ lastReturn'.kind # "none" /\ lastReturn' # lastReturn
           /\ Cached(tokensCache, lastReturn'.chainId, lastReturn'.tokenAddress))
          => /\ lastReturn'.rpc = 0
             /\ lastReturn'.stage = "cache"]_vars

\* C8 witness: a mixed-case reference was answered from the cache entry an
\* earlier on-chain lookup of the same address had written.
C8_Witness ==
  /\ lastReturn.stage = "cache"
  /\ lastReturn.rpc = 0
  /\ lastReturn.tokenAddress = ArbUsdtAddressMixed
  /\ tokensCache[lastReturn.chainId][ArbUsdtAddress]
       = OnChainInfo(lastReturn.chainId, ArbUsdtAddress)

\* C9 (as claimed): every descriptor a branch of the heuristic fallback
\* produces is in the token cache when getTokenInfo returns.
C9_FallbackResultCached ==
  (lastReturn.kind = "token" /\ lastReturn.stage \in FallbackStages)
    => Cached(tokensCache, lastReturn.chainId, lastReturn.tokenAddress)

\* C10 (as claimed): cache writes are idempotent: a write to a key that has
\* an entry leaves the entry as it was, whichever concurrent resolution
\* writes and whatever its RPC calls did.
C10_IdempotentCacheWrites ==
  [][\A c \in DOMAIN tokensCache : \A a \in DOMAIN tokensCache[c] :
       (c \in DOMAIN tokensCache' /\ a \in DOMAIN tokensCache'[c])
         => tokensCache'[c][a] = tokensCache[c][a]]_vars

\* The providers RouterService.constructor makes for a chain: one for each
\* entry of config.chains.
ConstructedProviders(chainId) == IF chainId \in ConfiguredChains THEN 1 ELSE 0

\* The JsonRpcProvider objects that exist for a chain: the constructor's and
\* the fallbackProvider of every getTokenInfo call that is in its retry.
ProviderContexts(chainId) ==
  ConstructedProviders(chainId)
    + Cardinality({s \in Resolutions :
                     res[s].fallbackProvider /\ res[s].chainId = chainId})

\* C11 (as claimed): there is exactly one RPC connection context for each
\* configured chain at all times: no request, a token resolution in its
\* fallback included, makes another one.
C11_OneProviderPerChain ==
  \A c \in ResolverChains : ProviderContexts(c) = 1

(***************************************************************************)
(* Claims about the request flow.                                          *)
(***************************************************************************)
\* The detailed request fails validation: a required parameter is missing
\* or its chain id is not configured.
FailsValidation(q) == q.missing # "none" \/ q.chainId \notin ConfiguredChains

\* C12: a request with a required parameter missing, or with a chain id
\* that is not configured, is answered 400 (with the required parameters,
\* respectively the configured chain ids) in the step that receives it: no
\* token resolution, RPC call or routing call is made, the token cache is
\* not written and no identifier is generated; no other request gets 400.
C12_ValidationRejects ==
  [][/\ (quote.pc = "new" /\ quote'.pc # "new" /\ FailsValidation(quote'))
          => /\ quote'.pc = "done"
             /\ quote'.status = 400
             /\ quote'.responses = 1
             /\ quote'.body.error # <<>>
             /\ quote'.missing # "none"
                  => quote'.body.requiredParams
                       = {"chainId", "tokenIn", "tokenOut", "amount"}
             /\ quote'.missing = "none"
                  => quote'.body.supportedChains = ConfiguredChains
             /\ quote'.calls = {}
             /\ genVars' = genVars
             /\ tokVars' = tokVars
     /\ (quote'.status = 400 /\ quote.status # 400) => FailsValidation(quote')]_vars

\* C12 witness: a request with all parameters and an unconfigured chain id
\* was answered 400 with the list of configured chains.
C12_Witness ==
  /\ quote.status = 400
  /\ quote.missing = "none"
  /\ quote.chainId = 999
  /\ quote.body.supportedChains = ConfiguredChains

\* The reference is neither native nor an address.
Malformed(tokenAddress) == ~isNative(tokenAddress) /\ ~IsAddress(tokenAddress)

\* C13 (as claimed): a request that passes validation and whose tokenIn or
\* tokenOut is malformed is answered 400.
C13_MalformedTokenIs400 ==
  (/\ quote.pc = "done"
   /\ quote.failedAt = "tokens"
   /\ Malformed(quote.tokenIn) \/ Malformed(quote.tokenOut))
    => quote.status = 400

\* The digits of a decimal amount, and the number of digits after its point.
AmountDigits(value) == SelectSeq(value, IsDigit)
FractionLength(value) ==
  IF \E k \in 1..Len(value) : value[k] = "."
  THEN Len(value) - (CHOOSE k \in 1..Len(value) : value[k] = ".")
  ELSE 0

NoRouteBodies == [c \in ConfiguredChains |-> handleError(Msg_NoRoute(c))]

\* C15: when router.route returns null the request ends with 500, and the
\* body carries a suggestion exactly when the chain is outside
\* {1, 10, 42161, 137, 8453}; inside the set the error is the
\* insufficient-liquidity one.
C15_NoRouteSuggestion ==
  /\ \A c \in ConfiguredChains :
       /\ NoRouteBodies[c].suggestion # <<>> <=> c \notin {1, 10, 42161, 137, 8453}
       /\ c \in {1, 10, 42161, 137, 8453}
            => NoRouteBodies[c].error = Msg_NoLiquidity
  /\ quote.failedAt = "noRoute"
       => /\ quote.status = 500
          /\ quote.responses = 1
          /\ quote.body = NoRouteBodies[quote.chainId]

\* C15 witness: null routes were answered for BNB chain with the suggestion
\* about PancakeSwap.
C15_Witness ==
  /\ quote.failedAt = "noRoute"
  /\ quote.chainId = 56
  /\ quote.status = 500
  /\ quote.body.suggestion = Msg_BnbSuggestion

\* C16 (as claimed): the body of the 500 response after an exception of the
\* RPC provider or of the routing engine is the one any other message of
\* that exception would have produced.
C16_BodyIndependentOfUpstream ==
  /\ quote.failedAt = "block"
       => \A m \in UpstreamMessages : quote.body = handleError(m)
  /\ quote.failedAt = "routeThrew"
       => \A m \in UpstreamMessages :
            quote.body = handleError(Msg_RouteThrew(quote.chainId, m))

\* C17: every quote request ends with exactly one response, whose status is
\* 200, 400 or 500, and a response whose status is not 200 carries an error
\* message, whichever step failed: a request that is not answered is at a
\* step that goes on (the request just received, or a call awaited), an
\* answered request has been answered exactly once, with 200 exactly when
\* no step failed.
C17_ExactlyOneResponse ==
  /\ quote.responses = IF quote.pc = "done" THEN 1 ELSE 0
  /\ quote.pc \in {"new", "awaitTokens", "awaitBlock", "awaitRoute", "done"}
  /\ quote.pc = "done" =>
       /\ quote.status \in {200, 400, 500}
       /\ quote.status = 200 <=>
            quote.failedAt = "none" /\ ~FailsValidation(quote)
       /\ quote.status # 200 => quote.body.error # <<>>

\* The response could not be turned into JSON text, and the request was
\* answered once, with 500 and an error message.
C17_Witness ==
  /\ quote.failedAt = "serialize"
  /\ quote.responses = 1
  /\ quote.status = 500
  /\ quote.body.error = Msg_Circular

(***************************************************************************)
(* Claims about the route normalizer.                                      *)
(***************************************************************************)
\* The raw result makes a property read raise during extraction: the read
\* of the token path throws; the only item of the pool list is undefined,
\* so reading its fields raises; the pool of the swap has no token
\* references, so pool.token0.address raises; toString of the result,
\* called for the label when there is no trade, throws.
ExtractionRaises(f) ==
  \/ f.tokens = "getter"
  \/ f.pools = "hole"
  \/ f.pools = "bare" /\ f.shape = "trade"
  \/ f.str = "throws" /\ f.shape = "flat"

\* C18: formatRoute never propagates an error, and when an exception is
\* raised during extraction its result is the degraded output: no hops, the
\* two fallback tokens as token path, both amounts "Unknown" and a label
\* saying that the route is unavailable or in error.
C18_DegradedOnException ==
  norm.pc = "done" /\ norm.f.shape # "null" =>
    /\ ~norm.out.threw
    /\ ExtractionRaises(norm.f) /\ norm.inputToken # <<>> =>
         /\ norm.out.paths = <<>>
         /\ norm.out.tokenPath = norm.inputToken \o norm.outputToken
         /\ norm.out.amountIn = Str(Chars("Unknown"))
         /\ norm.out.amountOut = Str(Chars("Unknown"))
         /\ norm.out.routeString \in
              {Str(Chars("Error formatting route details")),
               Str(Chars("Error getting route string")),
               Str(Chars("Route details unavailable"))}

\* C19: the normalized route is always serializable: it holds no object of
\* the raw result by reference, and turning it into JSON text never fails,
\* even when the raw result is circular.
C19_AlwaysSerializable ==
  norm.pc = "done" /\ norm.f.shape # "null" =>
    /\ \A v \in OutValues(norm.out) : v.t # "ref"
    /\ Serializable(BuildRaw(norm.f).heap, norm.out)

\* C20: for a raw result in which an object has a field pointing back to
\* itself or to the result, the normalizer terminates without raising and
\* its output has the circular-reference marker at the position of the
\* back-reference; the serialization helper keeps the identities it has
\* visited, enters no object twice and puts the marker at that position.
C20_CircularMarker ==
  LET marker == Str(Chars("[Circular]"))
      backReference ==
        <<"route", "0", IF norm.f.list = "self" THEN "self" ELSE "parent">>
  IN norm.pc = "done" /\ norm.f.shape # "null"
       /\ norm.f.list \in {"self", "ancestor"} =>
         /\ ~norm.out.threw
         /\ marker \in OutValues(norm.out)
         /\ \A j, k \in 1..Len(norm.copy.descended) :
              norm.copy.descended[j] = norm.copy.descended[k] => j = k
         /\ norm.f.str = "plain" =>
              [path |-> backReference, v |-> marker] \in norm.copy.leaves

\* C21: whichever extraction path produced the token list, when the list
\* has at least two tokens the route label is the token symbols joined with
\* the arrow separator; the label is something else only when fewer than
\* two tokens are known.  (Results of an extraction that raised, which get
\* an error label, are left aside.)
C21_LabelJoinsSymbols ==
  LET tokenPath == norm.out.tokenPath
      symbols == [k \in 1..Len(tokenPath) |-> tokenPath[k].symbol]
  IN norm.pc = "done" /\ norm.f.shape # "null" /\ ~ExtractionRaises(norm.f)
       /\ Len(tokenPath) >= 2
       => norm.out.routeString = join(BuildRaw(norm.f).heap, symbols, Arrow)

\* C22: every fee of the normalized route, the fee of a hop and the fee of
\* each of its pools, is rendered as a percentage: the basis-point values
\* 3000 and 500 of the raw results become "0.30%" and "0.05%" ("Unknown"
\* stands for a fee that is absent), and no raw integer is emitted.
C22_FeesArePercentages ==
  LET rendered == {Str(Chars("0.30%")), Str(Chars("0.05%")),
                   Str(Chars("Unknown"))}
  IN norm.pc = "done" /\ norm.f.shape # "null" =>
       \A k \in 1..Len(norm.out.paths) :
         /\ norm.out.paths[k].fee \in rendered
         /\ \A j \in 1..Len(norm.out.paths[k].pools) :
              norm.out.paths[k].pools[j].fee \in rendered

\* C23: amountIn and amountOut of the normalized route are strings: the
\* text of the first amount found in the order amount of the swap, amount
\* of the route, quote of the route, and "Unknown" when there is none (or
\* when the trade branch raised); a raw amount object is never emitted.
C23_AmountsAreStrings ==
  LET f == norm.f
      unknown == Str(Chars("Unknown"))
      caught == f.shape = "trade" /\ ExtractionRaises(f)
      hop == f.shape = "trade" /\ f.amounts = "hop"
  IN norm.pc = "done" /\ f.shape # "null" =>
       /\ norm.out.amountIn.t = "str"
       /\ norm.out.amountOut.t = "str"
       /\ norm.out.amountIn =
            IF ~caught /\ (hop \/ f.amounts = "route") THEN Str(Chars("1.5"))
            ELSE unknown
       /\ norm.out.amountOut =
            IF ~caught /\ (hop \/ f.amounts = "route") THEN Str(Chars("2700"))
            ELSE IF ~caught /\ f.amounts = "quote" THEN Str(Chars("2699.9"))
            ELSE unknown

\* C24: with two fallback tokens the token path of the normalized route
\* has at least two entries: the list of the trade when the raw result has
\* one, else the list found in the flatter fields (here: the currency of
\* the quote), and exactly the two fallback tokens, input first, when
\* neither gives a list.
C24_TokenPathHasTwoEntries ==
  LET f == norm.f
      tokenPath == norm.out.tokenPath
  IN norm.pc = "done" /\ f.shape # "null" /\ norm.inputToken # <<>> =>
       /\ Len(tokenPath) >= 2
       /\ f.tokens = "two" /\ ~ExtractionRaises(f) =>
            /\ tokenPath[1].symbol = Str(Chars("WETH"))
            /\ tokenPath[2].symbol = Str(Chars("USDC"))
       /\ f.tokens \in {"none", "getter"} /\ f.amounts # "quote" =>
            tokenPath = norm.inputToken \o norm.outputToken

(***************************************************************************)
(* Further claims about the identifier generator.                          *)
(***************************************************************************)
\* C25: the sequence component of a returned identifier is 0 when the call
\* reads a timestamp other than lastTimestamp and the previous sequence + 1
\* when it reads the same one; when the increment wraps past 4095 the call
\* returns a timestamp strictly above lastTimestamp, read from the clock,
\* with sequence 0.  The sequence of identifiers sharing a timestamp thus
\* counts 0, 1, .., 4095: at most 4096 of them.
C25_SequenceFollowsCounter ==
  [][\A i \in Instances :
       LET id == NumericValue(lastCall'[i].id)
           wraps == now = lastTimestamp[i] /\ sequence[i] = sequenceMask
       IN (Called(i) /\ lastCall'[i].ok) =>
          /\ id % Pow2(sequenceBits) = sequence'[i]
          /\ id \div Pow2(timestampLeftShift) = lastTimestamp'[i] - twepoch
          /\ now # lastTimestamp[i] =>
               sequence'[i] = 0 /\ lastTimestamp'[i] = now /\ now' = now
          /\ (now = lastTimestamp[i] /\ ~wraps) =>
               /\ sequence'[i] = sequence[i] + 1
               /\ lastTimestamp'[i] = now /\ now' = now
          /\ wraps =>
               /\ sequence'[i] = 0
               /\ lastTimestamp'[i] > lastTimestamp[i]
               /\ now' = lastTimestamp'[i]]_vars

\* C25 witness: 4096 identifiers have been returned within one millisecond
\* after the epoch, so the next call in that millisecond wraps.
C25_Witness ==
  /\ lastCall[1].ok
  /\ sequence[1] = sequenceMask
  /\ now = lastTimestamp[1]
  /\ lastTimestamp[1] > twepoch

(***************************************************************************)
(* Further claims about the request flow.                                  *)
(***************************************************************************)
\* C26: the steps a request has entered are an initial part of validation,
\* token resolution, amount parsing, block-height read, routing-engine call,
\* normalization, identifier generation, followed by the response once it
\* is answered; the routing engine is not called when an earlier step has
\* failed; the block number handed to the routing engine is the one the
\* same request read, whatever the other requests read meanwhile; and an
\* identifier is generated only after the routing engine returned a route.
C26_StepsInOrder ==
  \A r \in Requests :
    LET order == <<"validation", "tokens", "amount", "block", "route",
                   "normalization", "identifier">>
        steps == req[r].steps
        entered(step) == \E k \in 1..Len(steps) : steps[k] = step
    IN /\ \E k \in 0..Len(order) :
            steps = SubSeq(order, 1, k)
                      \o (IF req[r].pc = "done" THEN <<"response">> ELSE <<>>)
       /\ req[r].failed \in {"validation", "router", "tokens", "amount",
                             "block"} => ~entered("route")
       /\ entered("route") =>
            req[r].block \in BlockNumbers /\ req[r].pinned = req[r].block
       /\ entered("identifier") =>
            entered("route") /\ req[r].failed \in {"none", "identifier"}
       /\ req[r].status = 200 => entered("identifier")

\* C26 witness: two requests that overlapped have read different block
\* heights, and both have been answered with a quote.
C26_Witness ==
  /\ req[1].status = 200 /\ req[2].status = 200
  /\ req[1].concurrent \/ req[2].concurrent
  /\ req[1].block # req[2].block

(***************************************************************************)
(* Further claims about the token resolver.                                *)
(***************************************************************************)
\* C27: after a failed on-chain lookup of an address with no override and
\* no stablecoin match, the returned token has the decimals the
\* decimals-only retry returned when the retry succeeded and 18 when it
\* failed; the Arbitrum USDT address on chain 42161 gets 6 decimals and no
\* retry is made for it.
C27_FallbackDecimals ==
  LET r == lastReturn
      step == FallbackStep(r.chainId, r.tokenAddress)
  IN r.kind = "token" /\ r.primary = "failed" =>
       /\ step = "retry" =>
            \/ /\ r.stage = "retry"
               /\ r.decimals = OnChainInfo(r.chainId, r.tokenAddress).decimals
               /\ r.rpc = 4
            \/ r.stage = "default" /\ r.decimals = 18 /\ r.rpc = 4
       /\ step = "override" =>
            r.stage = "override" /\ r.decimals = 6 /\ r.rpc = 3

\* C27 witness: the lookup of an address without override or stablecoin
\* match has failed and the retry has returned its decimals.
C27_Witness ==
  /\ lastReturn.kind = "token"
  /\ lastReturn.primary = "failed"
  /\ lastReturn.stage = "retry"
  /\ lastReturn.decimals = 6

\* C28 (as claimed): while the cache holds, for the key of an address, a
\* placeholder written by the decimals-only retry or by the default, no
\* resolution of that key starts an on-chain lookup, a resolution of the
\* key that starts returns the placeholder with no RPC call, and no step of
\* the resolver replaces the entry with the on-chain values.
C28_PlaceholderKept ==
  [][\A c \in ResolverChains : \A x \in {y \in TokenInputs : IsAddress(y)} :
       LET a == toLowerCase(x)
           placeholders ==
             {RetryTokenInfo(y, OnChainInfo(c, y).decimals) :
                y \in {z \in TokenInputs : toLowerCase(z) = a}}
             \cup {DefaultTokenInfo(y) :
                     y \in {z \in TokenInputs : toLowerCase(z) = a}}
       IN (Cached(tokensCache, c, a) /\ tokensCache[c][a] \in placeholders) =>
            /\ \A s \in Resolutions :
                 (res[s].pc = "idle" /\ res'[s].pc # "idle")
                   => ~(res'[s].chainId = c
                          /\ toLowerCase(res'[s].tokenAddress) = a)
            /\ (res' = res /\ lastReturn' # lastReturn
                  /\ lastReturn'.chainId = c
                  /\ toLowerCase(lastReturn'.tokenAddress) = a)
                 => /\ lastReturn'.rpc = 0
                    /\ lastReturn'.kind = "token"
                    /\ TokenInfo(lastReturn'.name, lastReturn'.symbol,
                                 lastReturn'.decimals) = tokensCache[c][a]
            /\ tokensCache'[c][a] # OnChainInfo(c, a)]_vars

\* C29: lookups in flight are not shared.  A resolution of a token whose
\* key is absent from the cache when it starts issues its own
\* name/symbol/decimals calls, also while another resolution of the same
\* key is waiting for its calls; a token resolution returns without an RPC
\* call only when the key was in the cache at the moment it started.
C29_NoCoalescing ==
  [][/\ \A s \in Resolutions :
          (res[s].pc = "idle" /\ res'[s].pc # "idle")
            => /\ res'[s].pc = "awaitPrimary" /\ res'[s].rpc = 3
               /\ ~Cached(tokensCache, res'[s].chainId, res'[s].tokenAddress)
     /\ (res' = res /\ lastReturn' # lastReturn /\ lastReturn'.kind # "native")
          => /\ lastReturn'.stage = "cache" /\ lastReturn'.rpc = 0
             /\ Cached(tokensCache, lastReturn'.chainId,
                       lastReturn'.tokenAddress)
     /\ (lastReturn' # lastReturn /\ lastReturn'.kind = "token"
           /\ lastReturn'.rpc = 0)
          => Cached(tokensCache, lastReturn'.chainId, lastReturn'.tokenAddress)
     /\ (res' # res /\ lastReturn'.kind # "none") => lastReturn'.rpc >= 3]_vars

\* C29 witness: two resolutions of one address, written in two letter
\* cases, are waiting for their own on-chain lookups at the same time.
C29_Witness ==
  /\ res[1].pc = "awaitPrimary" /\ res[2].pc = "awaitPrimary"
  /\ res[1].chainId = res[2].chainId
  /\ res[1].tokenAddress = ArbUsdtAddress
  /\ res[2].tokenAddress = ArbUsdtAddressMixed
  /\ res[1].rpc = 3 /\ res[2].rpc = 3

(***************************************************************************)
(* Further claims about the error responses.                               *)
(***************************************************************************)
\* C30 (as claimed): after router.route has thrown the request ends with
\* 500; outside the chains {1, 10, 42161, 137, 8453} the message is the
\* fixed text naming the chain id, inside the set it is "Error finding
\* route: " followed by the message of the exception; and the body has a
\* suggestion exactly when the chain id is 56.
C30_RouteThrewAsClaimed ==
  quote.failedAt = "routeThrew" =>
    /\ quote.status = 500
    /\ quote.body.error =
         IF quote.chainId \notin {1, 10, 42161, 137, 8453}
         THEN Chars("Unable to find route. Chain ") \o toString(quote.chainId)
                \o Chars(" may not be supported by Uniswap. Consider using a chain-specific DEX instead.")
         ELSE Chars("Error finding route: ") \o quote.upstream
    /\ quote.body.suggestion # <<>> <=> quote.chainId = 56

\* C30 (amended): as claimed, except that inside the set an exception
\* without a message gives "Error finding route: Unknown error", and that
\* the body has a suggestion when the chain id is 56 or when, inside the
\* set, the message of the exception itself has one of the texts
\* handleError looks for.
C30_RouteThrewBody ==
  quote.failedAt = "routeThrew" =>
    LET known == quote.chainId \in {1, 10, 42161, 137, 8453}
        upstream == quote.upstream
    IN /\ quote.status = 500
       /\ quote.responses = 1
       /\ quote.body.error =
            IF ~known
            THEN Chars("Unable to find route. Chain ") \o toString(quote.chainId)
                   \o Chars(" may not be supported by Uniswap. Consider using a chain-specific DEX instead.")
            ELSE IF upstream = <<>> THEN Chars("Error finding route: Unknown error")
            ELSE Chars("Error finding route: ") \o upstream
       /\ quote.body.suggestion # <<>> <=>
            \/ quote.chainId = 56
            \/ /\ known
               /\ \/ includes(upstream, Chars("Chain 56"))
                  \/ includes(toLowerCase(upstream), Chars("bnb chain"))
                  \/ includes(upstream,
                              Chars("may not be fully supported by Uniswap"))

\* C30 witness: router.route has thrown an exception without a message on
\* chain 1, and the request was answered 500 without a suggestion.
C30_Witness ==
  /\ quote.failedAt = "routeThrew"
  /\ quote.chainId = 1
  /\ quote.upstream = <<>>
  /\ quote.status = 500
  /\ quote.body.suggestion = <<>>

====
